---------------------------- MODULE Spec2Model ----------------------------
(***************************************************************************)
(* State-machine model of js-report-card's core: the ProjectDownloader     *)
(* dispatcher, the built-in download backends, the MemoryCache and the     *)
(* AnalyzerManager.  Each component has its own specification over the     *)
(* shared variable tuple; a component's actions leave the other            *)
(* components' variables unchanged.                                        *)
(***************************************************************************)
EXTENDS Integers, Sequences, FiniteSets, TLC

VARIABLES
    downloaders,    \* ProjectDownloader.downloaders: Map in insertion order, <<[id, dl]>>
    dcall,          \* the last download() call made on the current registry: input,
                    \* canHandle/download calls made, outcome; and the position whose
                    \* backend the last registerDownloader replaced (0: it appended)
    cache,          \* MemoryCache.cache: Map<string, CacheEntry>, a function on the stored keys
    cacheOp,        \* the last operation a client made on the MemoryCache, the Map it
                    \* found and what it returned
    writes,         \* per key, the (at most two) latest entries passed to set() since the
                    \* key was last removed
    options,        \* the AnalyzerManagerOptions the AnalyzerManager was constructed with
    analyzers,      \* AnalyzerManager.analyzers: Map in insertion order, a sequence of analyzers
    regOp,          \* the last registerAnalyzer call and the error it raised, if any
    now,            \* Date.now()
    runs,           \* the runAnalysis calls, each at its await point
    clean,          \* the last AnalyzerManager.cleanup() call: the analyzers it mapped
                    \* over, their hooks' promises and its own
    dirs,           \* the target directories that exist under tmpdir()/js-report-card
    nextUuid,       \* how many uuidv4() names have been drawn
    acq,            \* the backend download() calls, each at its await point
    gitKey,         \* the last GitDownloader.getCacheKey call: the descriptor, what git
                    \* found, the key returned, and the call before it
    npmDesc,        \* the NpmProjectSource object the caller holds
    npmKey          \* the last NpmDownloader.getCacheKey call on npmDesc

dispatchVars == <<downloaders, dcall>>
cacheVars == <<cache, cacheOp, writes>>
managerVars == <<options, analyzers, regOp, now, runs, clean>>
backendVars == <<dirs, nextUuid, acq>>
keyVars == <<gitKey, npmDesc, npmKey>>

vars == <<downloaders, dcall, cache, cacheOp, writes, options, analyzers, regOp, now, runs,
          clean, dirs, nextUuid, acq, gitKey, npmDesc, npmKey>>

(***************************************************************************)
(* Shared helpers                                                          *)
(***************************************************************************)
Range(s) == {s[i] : i \in 1..Len(s)}

\* DownloaderError(message, code, sourceType, cause): errors.ts.  "origin" names the
\* thrown value itself ("dispatcher" for errors the dispatcher constructs).
DownloaderError(code, sourceType, cause) ==
    [class |-> "DownloaderError", code |-> code, sourceType |-> sourceType,
     cause |-> cause, origin |-> "dispatcher"]

(***************************************************************************)
(* ProjectDownloader (download/downloader.ts)                              *)
(***************************************************************************)
\* ProjectSourceType values used with the dispatcher, "invalid" being a tag no
\* backend knows.
SourceTypes == {"git", "npm", "invalid"}

\* The descriptors handed to download(): null, undefined, an object without a
\* type ({}), and tagged objects.
Sources ==
    {[kind |-> "null", type |-> ""], [kind |-> "undefined", type |-> ""],
     [kind |-> "object", type |-> ""]}
    \cup {[kind |-> "object", type |-> t] : t \in SourceTypes}

\* JavaScript truthiness of `source` and of `source.type`.
Truthy(source) == source.kind = "object"
TypeTruthy(source) == source.type # ""

\* Registered IProjectDownloader objects: each has a canHandle predicate, here the
\* set of type tags it accepts.
DownloaderObjs == {"dGit", "dGitNpm", "dNone", "dAll"}
DownloaderIds == {"first", "second", "third"}

Handles(dl) ==
    CASE dl = "dGit" -> {"git"}
      [] dl = "dGitNpm" -> {"git", "npm"}
      [] dl = "dNone" -> {}
      [] dl = "dAll" -> SourceTypes

canHandle(dl, source) == source.type \in Handles(dl)

\* What a backend's download() may do: resolve, or reject with a plain Error, a
\* non-Error value (a string) or an already typed DownloaderError.
BackendThrown ==
    {[class |-> "Error", code |-> "none", sourceType |-> "none", cause |-> "none",
      origin |-> "plainError"],
     [class |-> "string", code |-> "none", sourceType |-> "none", cause |-> "none",
      origin |-> "stringValue"],
     [class |-> "DownloaderError", code |-> "GIT_CLONE_FAILED", sourceType |-> "git",
      cause |-> "none", origin |-> "typedError"]}

NoError == [class |-> "none", code |-> "none", sourceType |-> "none", cause |-> "none",
            origin |-> "none"]

BackendOutcomes == {NoError} \cup BackendThrown

\* error instanceof Error
InstanceOfError(e) == e.class \in {"Error", "DownloaderError"}

IdsOf(reg) == {reg[i].id : i \in 1..Len(reg)}

IndexOfId(reg, id) == CHOOSE i \in 1..Len(reg) : reg[i].id = id

\* Variant: re-registering an id moves it to the end of the iteration order.
MapSetMoveToEnd(reg, id, dl) ==
    Append(SelectSeq(reg, LAMBDA e : e.id # id), [id |-> id, dl |-> dl])

\* Map.set: an existing key keeps its position and gets the new value, a new key
\* is appended.
MapSet(reg, id, dl) ==
    IF id \in IdsOf(reg)
    THEN [reg EXCEPT ![IndexOfId(reg, id)] = [id |-> id, dl |-> dl]]
    ELSE Append(reg, [id |-> id, dl |-> dl])

NoCall ==
    [state |-> "none", source |-> [kind |-> "null", type |-> ""], asked |-> <<>>,
     invoked |-> <<>>, backend |-> NoError, error |-> NoError, replaced |-> 0]

\* registerDownloader(id, downloader); the record of the last call describes the
\* registry it ran on, so it is dropped when the registry changes.
registerDownloader(id, dl) ==
    /\ downloaders' = MapSet(downloaders, id, dl)
    /\ dcall' = [NoCall EXCEPT !.replaced = IF id \in IdsOf(downloaders)
                                             THEN IndexOfId(downloaders, id) ELSE 0]
    /\ UNCHANGED <<cacheVars, managerVars, backendVars, keyVars>>

\* The catch block of download(): a non-Error value is wrapped, an Error is rethrown.
WrapThrown(e, source) ==
    IF ~InstanceOfError(e)
    THEN DownloaderError("DOWNLOAD_FAILED", source.type, e.origin)
    ELSE e

\* Variant: every backend's canHandle is consulted before the first match is used.
RECURSIVE FindAndDownloadAskAll(_, _, _, _, _)
FindAndDownloadAskAll(reg, i, source, outcome, asked) ==
    LET all == [j \in 1..Len(reg) |-> j]
        M == {j \in 1..Len(reg) : canHandle(reg[j].dl, source)}
    IN  IF M = {}
        THEN [asked |-> all, invoked |-> <<>>,
              error |-> DownloaderError("DOWNLOADER_NOT_FOUND", source.type, "none")]
        ELSE [asked |-> all, invoked |-> <<CHOOSE j \in M : \A k \in M : j <= k>>,
              error |-> IF outcome = NoError THEN NoError
                        ELSE WrapThrown(outcome, source)]

\* Variant: when the chosen backend fails, the next backend that accepts the
\* descriptor is tried, and its download succeeds.
FindAndDownloadNextOnFailure(reg, i, source, outcome, asked) ==
    LET M == {j \in 1..Len(reg) : canHandle(reg[j].dl, source)}
        f == CHOOSE j \in M : \A k \in M : j <= k
        L == {j \in M : j > f}
        g == CHOOSE j \in L : \A k \in L : j <= k
    IN  IF M = {}
        THEN [asked |-> [j \in 1..Len(reg) |-> j], invoked |-> <<>>,
              error |-> DownloaderError("DOWNLOADER_NOT_FOUND", source.type, "none")]
        ELSE IF outcome = NoError \/ L = {}
             THEN [asked |-> [j \in 1..f |-> j], invoked |-> <<f>>,
                   error |-> IF outcome = NoError THEN NoError
                             ELSE WrapThrown(outcome, source)]
             ELSE [asked |-> [j \in 1..g |-> j], invoked |-> <<f, g>>, error |-> NoError]

\* Variant: when no backend accepts the descriptor the last registered one is used.
FindAndDownloadFallback(reg, i, source, outcome, asked) ==
    LET all == [j \in 1..Len(reg) |-> j]
        M == {j \in 1..Len(reg) : canHandle(reg[j].dl, source)}
        f == IF M = {} THEN Len(reg) ELSE CHOOSE j \in M : \A k \in M : j <= k
    IN  IF reg = <<>>
        THEN [asked |-> <<>>, invoked |-> <<>>,
              error |-> DownloaderError("DOWNLOADER_NOT_FOUND", source.type, "none")]
        ELSE [asked |-> [j \in 1..f |-> j], invoked |-> <<f>>,
              error |-> IF outcome = NoError THEN NoError
                        ELSE WrapThrown(outcome, source)]

\* The for loop of download() from registry position i on, with the calls made so
\* far; `outcome` is what the chosen backend's download() does.
RECURSIVE FindAndDownload(_, _, _, _, _)
FindAndDownload(reg, i, source, outcome, asked) ==
    IF i > Len(reg)
    THEN [asked |-> asked, invoked |-> <<>>,
          error |-> DownloaderError("DOWNLOADER_NOT_FOUND", source.type, "none")]
    ELSE IF canHandle(reg[i].dl, source)
         THEN [asked |-> Append(asked, i), invoked |-> <<i>>,
               error |-> IF outcome = NoError THEN NoError
                         ELSE WrapThrown(outcome, source)]
         ELSE FindAndDownload(reg, i + 1, source, outcome, Append(asked, i))

\* Variant: no guard on a missing type tag; the descriptor goes to the backends.
DownloadResultNoTypeGuard(reg, source, outcome) ==
    IF ~Truthy(source)
    THEN [asked |-> <<>>, invoked |-> <<>>,
          error |-> DownloaderError("INVALID_SOURCE", "unknown", "none")]
    ELSE FindAndDownload(reg, 1, source, outcome, <<>>)

DownloadResult(reg, source, outcome) ==
    IF ~Truthy(source)
    THEN [asked |-> <<>>, invoked |-> <<>>,
          error |-> DownloaderError("INVALID_SOURCE", "unknown", "none")]
    ELSE IF ~TypeTruthy(source)
         THEN [asked |-> <<>>, invoked |-> <<>>,
               error |-> DownloaderError("INVALID_SOURCE", "unknown", "none")]
         ELSE FindAndDownload(reg, 1, source, outcome, <<>>)

\* ProjectDownloader.download(source): dcall records the registry positions whose
\* canHandle / download were called, what the chosen backend did and the outcome.
download(source, outcome) ==
    /\ LET r == DownloadResult(downloaders, source, outcome)
       IN  dcall' = [state |-> "done", source |-> source,
                     asked |-> r.asked, invoked |-> r.invoked,
                     backend |-> IF r.invoked = <<>> THEN NoError ELSE outcome,
                     error |-> r.error, replaced |-> dcall.replaced]
    /\ UNCHANGED downloaders
    /\ UNCHANGED <<cacheVars, managerVars, backendVars, keyVars>>

InitDispatch ==
    /\ downloaders = <<>>
    /\ dcall = NoCall

(***************************************************************************)
(* MemoryCache (cache/cache.ts)                                            *)
(***************************************************************************)
CacheKeys == {"k1", "k2"}

\* get() returns CacheEntry | null: <<>> stands for null, <<e>> for the entry e.
Null == <<>>

EmptyMap == [k \in {} |-> Null]

\* AnalyzerResult {analyzerId, score}
Result(id, score) == [analyzerId |-> id, score |-> score]

\* CacheEntry {timestamp, source: {type, version}, results}
CacheEntry(timestamp, source, results) ==
    [timestamp |-> timestamp, source |-> source, results |-> results]

\* Entries a client stores directly; they differ in every field.
ClientEntries ==
    {CacheEntry(1, [type |-> "git", version |-> "k1"], <<>>),
     CacheEntry(2, [type |-> "npm", version |-> "k2"], <<Result("a", 100)>>),
     CacheEntry(3, [type |-> "git", version |-> "k1"], <<Result("a", 50)>>)}

\* Map.get(key) || null
MapGet(m, k) == IF k \in DOMAIN m THEN <<m[k]>> ELSE Null

\* Variant: an existing key keeps its entry.
MapPutIfAbsent(m, k, e) ==
    [x \in DOMAIN m \cup {k} |-> IF x \in DOMAIN m THEN m[x] ELSE e]

\* Map.set(key, value)
MapPut(m, k, e) == [x \in DOMAIN m \cup {k} |-> IF x = k THEN e ELSE m[x]]

\* Variant: deleting a key drops every entry.
MapDeleteAll(m, k) == [x \in {} |-> m[x]]

\* Map.delete(key)
MapDelete(m, k) == [x \in DOMAIN m \ {k} |-> m[x]]

LastTwo(ws, e) == IF ws = <<>> THEN <<e>> ELSE <<ws[Len(ws)], e>>

\* MemoryCache.get(key)
get(k) ==
    /\ cacheOp' = [op |-> "get", key |-> k, before |-> cache, result |-> MapGet(cache, k)]
    /\ UNCHANGED <<cache, writes>>
    /\ UNCHANGED <<dispatchVars, managerVars, backendVars, keyVars>>

\* MemoryCache.set(key, value)
set(k, e) ==
    /\ cache' = MapPut(cache, k, e)
    /\ writes' = [writes EXCEPT ![k] = LastTwo(@, e)]
    /\ cacheOp' = [op |-> "set", key |-> k, before |-> cache, result |-> Null]
    /\ UNCHANGED <<dispatchVars, managerVars, backendVars, keyVars>>

\* MemoryCache.invalidate(key)
invalidate(k) ==
    /\ cache' = MapDelete(cache, k)
    /\ writes' = [writes EXCEPT ![k] = <<>>]
    /\ cacheOp' = [op |-> "invalidate", key |-> k, before |-> cache, result |-> Null]
    /\ UNCHANGED <<dispatchVars, managerVars, backendVars, keyVars>>

\* MemoryCache.clear()
clear ==
    /\ cache' = EmptyMap
    /\ writes' = [k \in CacheKeys |-> <<>>]
    /\ cacheOp' = [op |-> "clear", key |-> "k1", before |-> cache, result |-> Null]
    /\ UNCHANGED <<dispatchVars, managerVars, backendVars, keyVars>>

InitCache ==
    /\ cache = EmptyMap
    /\ cacheOp = [op |-> "none", key |-> "k1", before |-> EmptyMap, result |-> Null]
    /\ writes = [k \in CacheKeys |-> <<>>]

NextCache ==
    \/ \E k \in CacheKeys : get(k)
    \/ \E k \in CacheKeys, e \in ClientEntries : set(k, e)
    \/ \E k \in CacheKeys : invalidate(k)
    \/ clear

(***************************************************************************)
(* AnalyzerManager (analyzer/analyzer-manager.ts)                          *)
(***************************************************************************)
\* 24 * 60 * 60 * 1000
DefaultMaxCacheAge == 86400000

\* The clock stops advancing at MaxNow.
MaxNow == 3

\* IAnalyzer objects and their ids: a1 and a2 carry the same id.
AnalyzerObjs == {"a1", "a2", "b1"}

AnalyzerId(o) == IF o = "b1" THEN "b" ELSE "a"

\* The scores analyze() of each analyzer may report.
Scores(o) ==
    CASE o = "a1" -> {50, 100}
      [] o = "a2" -> {75}
      [] o = "b1" -> {100}

\* The runAnalysis calls that may be in flight; r1 is the caller that awaits each
\* call before making the next.
Runs == {"r1", "r2"}

Callers == {"r1"}

\* new AnalyzerManager(options): maxCacheAge <<>> is an option not given.
ManagerOptions ==
    {[cache |-> TRUE, maxCacheAge |-> <<2>>],
     [cache |-> TRUE, maxCacheAge |-> <<>>],
     [cache |-> FALSE, maxCacheAge |-> <<>>]}

\* Variant: only a missing maxCacheAge gets the default (??), 0 is kept.
maxCacheAgeNullish ==
    IF options.maxCacheAge = <<>> THEN DefaultMaxCacheAge ELSE options.maxCacheAge[1]

\* this.maxCacheAge = options.maxCacheAge || 24 * 60 * 60 * 1000
maxCacheAge ==
    IF options.maxCacheAge = <<>> \/ options.maxCacheAge = <<0>>
    THEN DefaultMaxCacheAge
    ELSE options.maxCacheAge[1]

\* AnalyzerConfig {enabled, rules?}: rules is whether a rules object is given.
Config(enabled, rules) == [enabled |-> enabled, rules |-> rules]

NoConfigs == [id \in {} |-> Config(TRUE, FALSE)]

\* The configs arguments of runAnalysis: Record<string, AnalyzerConfig>.
ConfigChoices ==
    {NoConfigs,
     [id \in {"a"} |-> Config(FALSE, FALSE)],
     [id \in {"a", "b"} |-> IF id = "a" THEN Config(TRUE, TRUE) ELSE Config(TRUE, FALSE)],
     [id \in {"a", "b"} |-> IF id = "a" THEN Config(TRUE, FALSE) ELSE Config(FALSE, TRUE)],
     [id \in {"b"} |-> Config(TRUE, TRUE)]}

\* The context's downloadResult?.metadata: <<>> when absent, <<k>> for version k.
Contexts == {<<>>, <<"k1">>}

Metadata(k) == [type |-> "git", version |-> k]

\* AnalyzerError(message, analyzerId, code)
AnalyzerError(analyzerId, code) == [analyzerId |-> analyzerId, code |-> code]

NoAnalyzerError == AnalyzerError("none", "none")

RegisteredIds == {AnalyzerId(analyzers[i]) : i \in 1..Len(analyzers)}

\* Variant: a second registration under an id replaces the first (a bare Map.set).
registerAnalyzerReplace(o) ==
    /\ analyzers' =
           IF AnalyzerId(o) \in RegisteredIds
           THEN [j \in 1..Len(analyzers) |->
                    IF AnalyzerId(analyzers[j]) = AnalyzerId(o) THEN o ELSE analyzers[j]]
           ELSE Append(analyzers, o)
    /\ regOp' = [obj |-> o, error |-> NoAnalyzerError]
    /\ UNCHANGED <<options, now, runs, clean>>
    /\ UNCHANGED <<dispatchVars, cacheVars, backendVars, keyVars>>

\* registerAnalyzer(analyzer)
registerAnalyzer(o) ==
    /\ IF AnalyzerId(o) \in RegisteredIds
       THEN /\ regOp' = [obj |-> o, error |-> AnalyzerError(AnalyzerId(o), "DUPLICATE_ANALYZER")]
            /\ UNCHANGED analyzers
       ELSE /\ analyzers' = Append(analyzers, o)
            /\ regOp' = [obj |-> o, error |-> NoAnalyzerError]
    /\ UNCHANGED <<options, now, runs, clean>>
    /\ UNCHANGED <<dispatchVars, cacheVars, backendVars, keyVars>>

\* getAnalyzer(id): <<>> stands for undefined.
getAnalyzer(id) ==
    IF id \in RegisteredIds
    THEN <<analyzers[CHOOSE i \in 1..Len(analyzers) : AnalyzerId(analyzers[i]) = id]>>
    ELSE <<>>

\* Variant: a missing config counts as disabled.
ResolveConfigDefaultOff(configs, id) ==
    IF id \in DOMAIN configs THEN configs[id] ELSE Config(FALSE, FALSE)

\* configs[id] ?? { enabled: true }
ResolveConfig(configs, id) ==
    IF id \in DOMAIN configs THEN configs[id] ELSE Config(TRUE, FALSE)

\* Variant: no entry is ever accepted.
isCacheValidNever(entry, t) == FALSE

\* isCacheValid(entry) evaluated when Date.now() = t
isCacheValid(entry, t) == t - entry.timestamp < maxCacheAge

\* Variant: the cache is used whenever the context carries metadata.
UsesCacheUnconfigured(key) == key # <<>>

\* this.cache && context.downloadResult?.metadata
UsesCache(key) == options.cache /\ key # <<>>

\* A runAnalysis call: pc is its await point, read whether cache.get was called,
\* cached what it returned,
\* checkedAt the Date.now() read by isCacheValid (-1: not evaluated), i the position
\* of the for loop in the registry, n the registry size when the loop ended, calls
\* the analyzer methods invoked in order, failure the invocation that rejected.
IdleRun ==
    [pc |-> "idle", key |-> <<>>, configs |-> NoConfigs, read |-> FALSE, cached |-> Null,
     checkedAt |-> -1, i |-> 0, n |-> 0, results |-> <<>>, calls |-> <<>>,
     failure |-> <<>>, fromCache |-> FALSE, wrote |-> FALSE,
     returned |-> <<>>, error |-> NoAnalyzerError]

Call(op, o) == [op |-> op, obj |-> o]

\* The `continue` of disabled analyzers: the first position from i on whose
\* resolved config is enabled, Len(reg) + 1 if there is none.
RECURSIVE NextEnabled(_, _, _)
NextEnabled(reg, configs, i) ==
    IF i > Len(reg) THEN i
    ELSE IF ResolveConfig(configs, AnalyzerId(reg[i])).enabled THEN i
         ELSE NextEnabled(reg, configs, i + 1)

\* Variant: analyze of every remaining enabled analyzer is started at once and the
\* results are awaited afterwards.
EnterStartsAll(run, reg, i) ==
    LET j == NextEnabled(reg, run.configs, i)
        rest == SelectSeq(SubSeq(reg, j, Len(reg)),
                          LAMBDA o : ResolveConfig(run.configs, AnalyzerId(o)).enabled)
    IN  IF j > Len(reg)
        THEN [run EXCEPT !.pc = "await_run", !.i = j, !.n = Len(reg)]
        ELSE [run EXCEPT !.pc = "analyze", !.i = j,
                         !.calls = @ \o [x \in 1..Len(rest) |-> Call("analyze", rest[x])]]

\* Variant: validateConfig is called for every enabled analyzer, rules or not.
EnterValidateAlways(run, reg, i) ==
    LET j == NextEnabled(reg, run.configs, i)
    IN  IF j > Len(reg)
        THEN [run EXCEPT !.pc = "await_run", !.i = j, !.n = Len(reg)]
        ELSE [run EXCEPT !.pc = "validateConfig", !.i = j,
                         !.calls = Append(@, Call("validateConfig", reg[j]))]

\* runAnalyzers' for loop from position i up to its next await: validateConfig when
\* the config has rules, else analyze; past the last analyzer the loop returns.
Enter(run, reg, i) ==
    LET j == NextEnabled(reg, run.configs, i)
    IN  IF j > Len(reg)
        THEN [run EXCEPT !.pc = "await_run", !.i = j, !.n = Len(reg)]
        ELSE IF ResolveConfig(run.configs, AnalyzerId(reg[j])).rules
             THEN [run EXCEPT !.pc = "validateConfig", !.i = j,
                              !.calls = Append(@, Call("validateConfig", reg[j]))]
             ELSE [run EXCEPT !.pc = "analyze", !.i = j,
                              !.calls = Append(@, Call("analyze", reg[j]))]

\* Variant: a failure ends the run with the results accumulated so far.
FailPartial(run, reg, op) ==
    [run EXCEPT !.pc = "done", !.failure = <<Call(op, reg[run.i])>>,
                !.returned = <<run.results>>]

\* The catch block of runAnalyzers: the run rejects with ANALYSIS_FAILED for `id`.
Fail(run, reg, op) ==
    [run EXCEPT !.pc = "done", !.failure = <<Call(op, reg[run.i])>>,
                !.error = AnalyzerError(AnalyzerId(reg[run.i]), "ANALYSIS_FAILED")]

\* runAnalysis(context, configs) up to its first await: cache.get when a cache and
\* metadata are present, else runAnalyzers.
runAnalysis(r, ctx, configs) ==
    /\ runs[r].pc \in {"idle", "done"}
    /\ LET base == [IdleRun EXCEPT !.key = ctx, !.configs = configs]
       IN  runs' = [runs EXCEPT ![r] =
               IF UsesCache(ctx)
               THEN [base EXCEPT !.pc = "await_get", !.read = TRUE,
                                 !.cached = MapGet(cache, ctx[1])]
               ELSE Enter(base, analyzers, 1)]
    /\ UNCHANGED <<options, analyzers, regOp, now, clean>>
    /\ UNCHANGED <<dispatchVars, cacheVars, backendVars, keyVars>>

\* Variant: an entry found past max-age is deleted from the cache before the
\* analyzers run.
resumeGetEvictsStale(r) ==
    /\ runs[r].pc = "await_get"
    /\ LET run == runs[r]
           stale == run.cached # Null /\ ~isCacheValid(run.cached[1], now)
       IN  /\ runs' = [runs EXCEPT ![r] =
                  IF run.cached # Null
                  THEN IF isCacheValid(run.cached[1], now)
                       THEN [run EXCEPT !.pc = "done", !.checkedAt = now, !.fromCache = TRUE,
                                        !.returned = <<run.cached[1].results>>]
                       ELSE Enter([run EXCEPT !.checkedAt = now], analyzers, 1)
                  ELSE Enter(run, analyzers, 1)]
           /\ cache' = IF stale THEN MapDelete(cache, run.key[1]) ELSE cache
    /\ UNCHANGED <<options, analyzers, regOp, now, clean, cacheOp, writes>>
    /\ UNCHANGED <<dispatchVars, backendVars, keyVars>>

\* Variant: an entry is served only when it holds a result of exactly the analyzers
\* the call enables.
resumeGetMatchingSetOnly(r) ==
    /\ runs[r].pc = "await_get"
    /\ LET run == runs[r]
           enabled == {AnalyzerId(analyzers[j]) : j \in
                          {x \in 1..Len(analyzers) :
                              ResolveConfig(run.configs, AnalyzerId(analyzers[x])).enabled}}
       IN  runs' = [runs EXCEPT ![r] =
               IF run.cached # Null
               THEN IF /\ isCacheValid(run.cached[1], now)
                       /\ {run.cached[1].results[x].analyzerId :
                               x \in 1..Len(run.cached[1].results)} = enabled
                    THEN [run EXCEPT !.pc = "done", !.checkedAt = now, !.fromCache = TRUE,
                                     !.returned = <<run.cached[1].results>>]
                    ELSE Enter([run EXCEPT !.checkedAt = now], analyzers, 1)
               ELSE Enter(run, analyzers, 1)]
    /\ UNCHANGED <<options, analyzers, regOp, now, clean>>
    /\ UNCHANGED <<dispatchVars, cacheVars, backendVars, keyVars>>

\* After `await this.cache.get(cacheKey)`: return the cached results or run.
resumeGet(r) ==
    /\ runs[r].pc = "await_get"
    /\ LET run == runs[r]
       IN  runs' = [runs EXCEPT ![r] =
               IF run.cached # Null
               THEN IF isCacheValid(run.cached[1], now)
                    THEN [run EXCEPT !.pc = "done", !.checkedAt = now, !.fromCache = TRUE,
                                     !.returned = <<run.cached[1].results>>]
                    ELSE Enter([run EXCEPT !.checkedAt = now], analyzers, 1)
               ELSE Enter(run, analyzers, 1)]
    /\ UNCHANGED <<options, analyzers, regOp, now, clean>>
    /\ UNCHANGED <<dispatchVars, cacheVars, backendVars, keyVars>>

\* After `await analyzer.validateConfig(config.rules)`
validateConfigDone(r, ok) ==
    /\ runs[r].pc = "validateConfig"
    /\ LET run == runs[r]
       IN  runs' = [runs EXCEPT ![r] =
               IF ok
               THEN [run EXCEPT !.pc = "analyze",
                                !.calls = Append(@, Call("analyze", analyzers[run.i]))]
               ELSE Fail(run, analyzers, "validateConfig")]
    /\ UNCHANGED <<options, analyzers, regOp, now, clean>>
    /\ UNCHANGED <<dispatchVars, cacheVars, backendVars, keyVars>>

\* Variant: the results are collected in the array of the entry that cache.get
\* returned, so that each result is pushed into the stored entry.
analyzeDoneInPlace(r, score) ==
    /\ runs[r].pc = "analyze"
    /\ LET run == runs[r]
           o == analyzers[run.i]
       IN  /\ score \in Scores(o) \cup {0}
           /\ runs' = [runs EXCEPT ![r] =
                  IF score # 0
                  THEN Enter([run EXCEPT !.results = Append(@, Result(AnalyzerId(o), score))],
                             analyzers, run.i + 1)
                  ELSE Fail(run, analyzers, "analyze")]
           /\ cache' = IF score # 0 /\ run.cached # Null /\ run.key[1] \in DOMAIN cache
                       THEN [cache EXCEPT ![run.key[1]].results =
                                Append(@, Result(AnalyzerId(o), score))]
                       ELSE cache
    /\ UNCHANGED <<options, analyzers, regOp, now, clean, cacheOp, writes>>
    /\ UNCHANGED <<dispatchVars, backendVars, keyVars>>

\* After `await analyzer.analyze({...context, config})`: score 0 stands for a
\* rejection, any other score for a result.
analyzeDone(r, score) ==
    /\ runs[r].pc = "analyze"
    /\ LET run == runs[r]
           o == analyzers[run.i]
       IN  /\ score \in Scores(o) \cup {0}
           /\ runs' = [runs EXCEPT ![r] =
                  IF score # 0
                  THEN Enter([run EXCEPT !.results = Append(@, Result(AnalyzerId(o), score))],
                             analyzers, run.i + 1)
                  ELSE Fail(run, analyzers, "analyze")]
    /\ UNCHANGED <<options, analyzers, regOp, now, clean>>
    /\ UNCHANGED <<dispatchVars, cacheVars, backendVars, keyVars>>

\* Variant: a call that finds an entry stored meanwhile keeps it and returns its
\* results.
storeFirstWriterWins(r) ==
    /\ runs[r].pc = "await_run"
    /\ LET run == runs[r]
       IN  IF UsesCache(run.key) /\ run.key[1] \in DOMAIN cache
           THEN /\ runs' = [runs EXCEPT ![r] =
                       [run EXCEPT !.pc = "done",
                                   !.returned = <<cache[run.key[1]].results>>]]
                /\ UNCHANGED cache
           ELSE IF UsesCache(run.key)
                THEN /\ cache' = MapPut(cache, run.key[1],
                                        CacheEntry(now, Metadata(run.key[1]), run.results))
                     /\ runs' = [runs EXCEPT ![r] =
                            [run EXCEPT !.pc = "done", !.wrote = TRUE,
                                        !.returned = <<run.results>>]]
                ELSE /\ runs' = [runs EXCEPT ![r] = [run EXCEPT !.pc = "done",
                                                               !.returned = <<run.results>>]]
                     /\ UNCHANGED cache
    /\ UNCHANGED <<options, analyzers, regOp, now, clean, cacheOp, writes>>
    /\ UNCHANGED <<dispatchVars, backendVars, keyVars>>

\* Variant: the entry is stamped with the time at which the call tested the entry
\* it found, when it found one.
storeTimestampAtCheck(r) ==
    /\ runs[r].pc = "await_run"
    /\ LET run == runs[r]
       IN  IF UsesCache(run.key)
           THEN LET e == CacheEntry(IF run.checkedAt >= 0 THEN run.checkedAt ELSE now,
                                    Metadata(run.key[1]), run.results)
                IN  /\ cache' = MapPut(cache, run.key[1], e)
                    /\ runs' = [runs EXCEPT ![r] = [run EXCEPT !.pc = "done", !.wrote = TRUE,
                                                              !.returned = <<run.results>>]]
           ELSE /\ runs' = [runs EXCEPT ![r] = [run EXCEPT !.pc = "done",
                                                          !.returned = <<run.results>>]]
                /\ UNCHANGED cache
    /\ UNCHANGED <<options, analyzers, regOp, now, clean, cacheOp, writes>>
    /\ UNCHANGED <<dispatchVars, backendVars, keyVars>>

\* After `await this.runAnalyzers(context, configs)`: cache.set when a cache and
\* metadata are present, then return the results.
store(r) ==
    /\ runs[r].pc = "await_run"
    /\ LET run == runs[r]
       IN  IF UsesCache(run.key)
           THEN LET e == CacheEntry(now, Metadata(run.key[1]), run.results)
                IN  /\ cache' = MapPut(cache, run.key[1], e)
                    /\ runs' = [runs EXCEPT ![r] = [run EXCEPT !.pc = "done", !.wrote = TRUE,
                                                              !.returned = <<run.results>>]]
           ELSE /\ runs' = [runs EXCEPT ![r] = [run EXCEPT !.pc = "done",
                                                          !.returned = <<run.results>>]]
                /\ UNCHANGED cache
    /\ UNCHANGED <<options, analyzers, regOp, now, clean, cacheOp, writes>>
    /\ UNCHANGED <<dispatchVars, backendVars, keyVars>>

\* Whether the analyzer object has a cleanup method: a2 has none.
HasCleanup(o) == o # "a2"

NoCleanup == [pc |-> "idle", objs |-> <<>>, hookCalls |-> <<>>, hooks |-> <<>>]

\* The promise the map callback yields for analyzer o: the hook's own promise when
\* there is a hook, Promise.resolve() otherwise.
HookPromise(o) == IF HasCleanup(o) THEN "pending" ELSE "resolved"

\* cleanup() up to its await: Array.from(this.analyzers.values()).map(...) calls the
\* hook of each analyzer that has one, in registration order, and Promise.all is
\* awaited.  A hook call either returns its promise or throws before returning one;
\* throwsAt is the position of the first hook that throws (0: none does).  The
\* exception leaves the map callback and map itself, so the analyzers after throwsAt
\* are not visited, Promise.all is not reached and the async cleanup() rejects; the
\* promises of the hooks called before throwsAt stay as they are.  The caller makes
\* the next call when the hooks of the last have settled.
cleanupAll(throwsAt) ==
    /\ clean.pc # "awaiting"
    /\ \A j \in 1..Len(clean.hooks) : clean.hooks[j] # "pending"
    /\ throwsAt \in 0..Len(analyzers)
    /\ throwsAt # 0 => HasCleanup(analyzers[throwsAt])
    /\ clean' = IF throwsAt = 0
                THEN [pc |-> "awaiting", objs |-> analyzers,
                      hookCalls |-> SelectSeq(analyzers, HasCleanup),
                      hooks |-> [j \in 1..Len(analyzers) |-> HookPromise(analyzers[j])]]
                ELSE [pc |-> "rejected", objs |-> analyzers,
                      hookCalls |-> SelectSeq(SubSeq(analyzers, 1, throwsAt), HasCleanup),
                      hooks |-> [j \in 1..Len(analyzers) |->
                                    IF j < throwsAt THEN HookPromise(analyzers[j])
                                    ELSE IF j = throwsAt THEN "threw" ELSE "notCalled"]]
    /\ UNCHANGED <<options, analyzers, regOp, now, runs>>
    /\ UNCHANGED <<dispatchVars, cacheVars, backendVars, keyVars>>

\* The promise of the j-th analyzer's cleanup hook resolves (ok) or rejects.
hookSettles(j, ok) ==
    /\ j \in 1..Len(clean.hooks)
    /\ clean.hooks[j] = "pending"
    /\ clean' = [clean EXCEPT !.hooks[j] = IF ok THEN "resolved" ELSE "rejected"]
    /\ UNCHANGED <<options, analyzers, regOp, now, runs>>
    /\ UNCHANGED <<dispatchVars, cacheVars, backendVars, keyVars>>

\* await Promise.all(cleanupPromises): it rejects once a promise has rejected and
\* resolves once all have resolved.
cleanupSettles ==
    /\ clean.pc = "awaiting"
    /\ IF \E j \in 1..Len(clean.hooks) : clean.hooks[j] = "rejected"
       THEN clean' = [clean EXCEPT !.pc = "rejected"]
       ELSE /\ \A j \in 1..Len(clean.hooks) : clean.hooks[j] = "resolved"
            /\ clean' = [clean EXCEPT !.pc = "resolved"]
    /\ UNCHANGED <<options, analyzers, regOp, now, runs>>
    /\ UNCHANGED <<dispatchVars, cacheVars, backendVars, keyVars>>

\* The wall clock advances.
Tick ==
    /\ now < MaxNow
    /\ now' = now + 1
    /\ UNCHANGED <<options, analyzers, regOp, runs, clean>>
    /\ UNCHANGED <<dispatchVars, cacheVars, backendVars, keyVars>>

InitManager ==
    /\ options \in ManagerOptions
    /\ analyzers = <<>>
    /\ regOp = [obj |-> "a1", error |-> NoAnalyzerError]
    /\ now = 0
    /\ runs = [r \in Runs |-> IdleRun]
    /\ clean = NoCleanup

NextManager ==
    \/ \E o \in AnalyzerObjs : registerAnalyzer(o)
    \/ \E r \in Callers, ctx \in Contexts, configs \in ConfigChoices :
           runAnalysis(r, ctx, configs)
    \/ \E r \in Callers : resumeGet(r)
    \/ \E r \in Callers, ok \in BOOLEAN : validateConfigDone(r, ok)
    \/ \E r \in Callers, score \in {0, 50, 75, 100} : analyzeDone(r, score)
    \/ \E r \in Callers : store(r)
    \/ Tick

\* Registration and cleanup() with the hooks settling in any order.
NextCleanup ==
    \/ \E o \in AnalyzerObjs : registerAnalyzer(o)
    \/ \E throwsAt \in 0..2 : cleanupAll(throwsAt)
    \/ \E j \in 1..2, ok \in BOOLEAN : hookSettles(j, ok)
    \/ cleanupSettles

\* Two callers running the same fingerprint through one analyzer, their calls
\* interleaved at the await points.
NextConcurrent ==
    \/ \E o \in {"a1"} : registerAnalyzer(o)
    \/ \E r \in Runs : runAnalysis(r, <<"k1">>, NoConfigs)
    \/ \E r \in Runs : resumeGet(r)
    \/ \E r \in Runs, score \in {0, 50, 100} : analyzeDone(r, score)
    \/ \E r \in Runs : store(r)
    \/ Tick

(***************************************************************************)
(* Built-in backends (download/git-, zip-, npm-, local-downloader.ts)      *)
(***************************************************************************)
\* At most MaxUuid target directory names are drawn.
MaxUuid == 3

AcqIds == {"c1", "c2"}

\* A URL string, by what `new URL(url)` makes of it: whether it parses, its
\* protocol, the username and password it carries, and whether the string is in
\* the normal form that URL.toString() yields.
Url(parses, protocol, username, password, normal) ==
    [parses |-> parses, protocol |-> protocol, username |-> username,
     password |-> password, normal |-> normal]

NoUrl == Url(FALSE, "", "", "", TRUE)

HttpsUrl == Url(TRUE, "https:", "", "", TRUE)

Urls == {NoUrl, HttpsUrl, Url(TRUE, "http:", "", "", TRUE)}

\* The URLs of the credential checks: four protocols, with and without credentials
\* of their own, in normal form or not, and a string that is no URL.
AuthUrls ==
    {NoUrl}
    \cup {Url(TRUE, p, "", "", n) : p \in {"https:", "ssh:", "git:", "http:"}, n \in BOOLEAN}
    \cup {Url(TRUE, "https:", "old", pw, TRUE) : pw \in {"", "oldpw"}}

\* auth {username?, token?}: "" stands for a field that is missing or empty.
Auth(username, token) == [username |-> username, token |-> token]

Auths == {Auth(u, t) : u \in {"", "u"}, t \in {"", "T", "t/k"}}

\* JavaScript truthiness of a string or undefined.
StrTruthy(str) == str # ""

\* The percent-encoding that the username and password setters of URL apply.
PercentEncode(str) == IF str = "t/k" THEN "t%2Fk" ELSE str

\* Variant: the token becomes the username whenever there is one, else the
\* username is used.
addAuthToUrlTokenFirst(url, auth) ==
    IF StrTruthy(auth.token)
    THEN [url EXCEPT !.normal = TRUE, !.username = PercentEncode(auth.token)]
    ELSE IF StrTruthy(auth.username)
         THEN [url EXCEPT !.normal = TRUE, !.username = PercentEncode(auth.username)]
         ELSE [url EXCEPT !.normal = TRUE]

\* GitDownloader.addAuthToUrl for a url that parses: new URL(url), the setters,
\* toString().
addAuthToUrl(url, auth) ==
    IF StrTruthy(auth.username) /\ StrTruthy(auth.token)
    THEN [url EXCEPT !.normal = TRUE, !.username = PercentEncode(auth.username),
                     !.password = PercentEncode(auth.token)]
    ELSE IF StrTruthy(auth.token)
         THEN [url EXCEPT !.normal = TRUE, !.username = PercentEncode(auth.token)]
         ELSE [url EXCEPT !.normal = TRUE]

\* GitDownloader.isValidGitUrl
isValidGitUrl(url) == url.parses /\ url.protocol \in {"https:", "git:", "ssh:"}

\* A descriptor: url, ref (whether one is given) and auth (<<>> when absent) matter
\* to git, url and auth to zip, path to local.
Source(type, url, ref, path, auth) ==
    [type |-> type, url |-> url, ref |-> ref, path |-> path, auth |-> auth]

BackendSources ==
    {Source("git", u, FALSE, "", <<>>) : u \in Urls}
    \cup {Source("git", HttpsUrl, TRUE, "", <<>>)}
    \cup {Source("zip", HttpsUrl, FALSE, "", <<>>),
          Source("npm", NoUrl, FALSE, "", <<>>)}
    \cup {Source("local", NoUrl, FALSE, p, <<>>) : p \in {"", " ", "/project"}}

\* The git and zip descriptors of the credential checks.
AuthSources ==
    {Source("git", u, FALSE, "", a) :
        u \in AuthUrls, a \in {<<>>} \cup {<<x>> : x \in Auths}}
    \cup {Source("zip", HttpsUrl, FALSE, "", a) : a \in {<<>>} \cup {<<x>> : x \in Auths}}
    \cup {Source("zip", u, FALSE, "", <<>>) :
             u \in {NoUrl} \cup {Url(TRUE, p, "", "", TRUE) : p \in {"http:", "ssh:", "data:"}}}

\* String.prototype.trim on the strings of the model: a blank path, and the
\* output lines of git rev-parse and npm view.
Trim(str) ==
    CASE str = " " -> ""
      [] str = "h1\n" -> "h1"
      [] str = "h2\n" -> "h2"
      [] str = "2.0.0\n" -> "2.0.0"
      [] str = "2.1.0\n" -> "2.1.0"
      [] OTHER -> str

\* Variant: only the empty string counts as an empty path.
PathIsEmptyNoTrim(path) == path = ""

\* LocalDownloader.download's first test, !source.path?.trim()
PathIsEmpty(path) == ~StrTruthy(Trim(path))

\* Variant: the URL with the credentials is stored back into the descriptor.
DescriptorAfterEmbeddingInPlace(src) ==
    IF src.auth # <<>> THEN [src EXCEPT !.url = addAuthToUrl(src.url, src.auth[1])]
    ELSE src

\* The caller's descriptor after lines 57-60 of GitDownloader.download: the URL with
\* the credentials goes to the local cloneUrl, the descriptor is not assigned to.
DescriptorAfterEmbedding(src) == src

\* The URL handed to git.clone.
CloneUrl(src) == IF src.auth # <<>> THEN addAuthToUrl(src.url, src.auth[1]) ELSE src.url

\* Variant: a token is sent as Bearer also when a username comes with it.
AuthorizationHeaderBearerFirst(src) ==
    IF src.auth = <<>> \/ ~StrTruthy(src.auth[1].token) THEN <<>>
    ELSE <<[scheme |-> "Bearer", encoding |-> "none", text |-> <<src.auth[1].token>>]>>

\* ZipDownloader.fetchWithAuth: the Authorization header of the request, <<>> when
\* none is set; text is the string that is sent as it is or base64-encoded.
AuthorizationHeader(src) ==
    IF src.auth = <<>> THEN <<>>
    ELSE IF StrTruthy(src.auth[1].username) /\ StrTruthy(src.auth[1].token)
         THEN <<[scheme |-> "Basic", encoding |-> "base64",
                 text |-> <<src.auth[1].username, ":", src.auth[1].token>>]>>
         ELSE IF StrTruthy(src.auth[1].token)
              THEN <<[scheme |-> "Bearer", encoding |-> "none",
                      text |-> <<src.auth[1].token>>]>>
              ELSE <<>>

\* The awaited calls inside download()'s try block, in order.  "rm" is the
\* rm(targetDir) made before mkdir by the zip and npm backends; "fetch" is
\* fetchWithAuth together with the checks of response.ok and response.body.
TrySteps(src) ==
    CASE src.type = "git" -> IF src.ref THEN <<"clone", "checkout">> ELSE <<"clone">>
      [] src.type = "zip" -> <<"rm", "mkdir", "fetch", "pipeline", "extract", "rmZip">>
      [] src.type = "npm" -> <<"rm", "mkdir", "npm pack", "tar", "rmTarball">>
      [] src.type = "local" -> <<"cp">>

\* rm(targetDir, ...).catch(() => {}): a rejection is swallowed, the awaited
\* promise resolves either way.
Swallowed(step) == step = "rm"

\* Steps that create the target directory, and those that may leave it behind
\* partly populated when they fail.
Creates(step) == step \in {"clone", "mkdir", "cp"}
MayLeavePartial(step) == step \in {"clone", "cp"}

\* The code of the DownloaderError thrown by each backend's catch block.
FailureCode(type) ==
    CASE type = "git" -> "GIT_CLONE_FAILED"
      [] type = "zip" -> "ZIP_DOWNLOAD_FAILED"
      [] type = "npm" -> "NPM_DOWNLOAD_FAILED"
      [] type = "local" -> "LOCAL_COPY_FAILED"

\* git and local pass the caught error as cause, zip and npm pass none.
FailureCause(type, step) == IF type \in {"git", "local"} THEN step ELSE "none"

BackendError(code, sourceType, cause) ==
    [DownloaderError(code, sourceType, cause) EXCEPT !.origin = "backend"]

\* The returned DownloadResult.path: the target directory, or a directory in it.
Path(dir, sub) == [dir |-> dir, sub |-> sub]

\* The path of the returned DownloadResult: targetDir, and for npm
\* join(targetDir, 'package').
WorkspacePath(src, targetDir) == Path(targetDir, IF src.type = "npm" THEN "package" ELSE "")

\* Variant: the cleanup closure removes the path that was returned.
CleanupTargetReturnedPath(src, targetDir) == WorkspacePath(src, targetDir)

\* What the returned cleanup closure removes: rm(targetDir, ...) in every backend.
CleanupTarget(src, targetDir) == Path(targetDir, "")

\* The directories left when path p is removed recursively: removing a target
\* directory removes it, removing a directory inside it leaves it.
RemovePath(ds, p) == IF p.sub = "" THEN ds \ {p.dir} ELSE ds

\* NpmDownloader.download's packageId: packageName@version when the descriptor has
\* a version, else packageName.
PackageId(desc) ==
    [packageName |-> desc.packageName,
     version |-> IF StrTruthy(desc.version) THEN <<desc.version>> ELSE <<>>]

\* What `await this.fetchWithAuth(source)` gives: fetch rejected (settled FALSE), or
\* a Response with its ok flag and with or without a body.
Response(settled, ok, body) == [settled |-> settled, ok |-> ok, body |-> body]

Responses ==
    {Response(FALSE, FALSE, FALSE)}
    \cup {Response(TRUE, ok, body) : ok \in BOOLEAN, body \in BOOLEAN}

\* Variant: the body is not tested.
ResponseAcceptedStatusOnly(resp) == resp.settled /\ resp.ok

\* ZipDownloader.download goes on to the pipeline: neither fetch nor the tests
\* `!response.ok` and `!response.body` threw.
ResponseAccepted(resp) == resp.settled /\ resp.ok /\ resp.body

\* What fetch(url, {headers}) may give: it rejects for a string that is no URL and
\* for a scheme it does not implement, it serves a data: URL from the URL itself,
\* and for http: and https: it gives whatever the server and the network give.
FetchOutcomes(url) ==
    IF ~url.parses \/ url.protocol \notin {"http:", "https:", "data:"}
    THEN {Response(FALSE, FALSE, FALSE)}
    ELSE IF url.protocol = "data:"
         THEN {Response(FALSE, FALSE, FALSE), Response(TRUE, TRUE, TRUE)}
         ELSE Responses

\* A download() call: pc "try" is inside the try block before step `step`, "catch"
\* at the catch block's rm, "held" returned and not yet cleaned up, "released"
\* cleaned up, "failed" rejected.  events are the calls made, failedAt the length
\* of events when the try block threw, lastCleanup what the latest call of the
\* returned cleanup() did: "removed" the directory, found it "absent", or "threw".
\* given is the descriptor as the caller passed it and src the caller's descriptor
\* object as it is now; cloneUrl is the URL git.clone was called with and request
\* the fetch call's URL and Authorization header (<<>>: not called); accessible is
\* what access(source.path) found, for a local descriptor that got that far, and
\* response what the fetch of a zip download gave; packageId is what an npm
\* download hands to npm pack, read from the caller's descriptor when mkdir is done.
IdleAcq ==
    [pc |-> "idle", given |-> Source("git", NoUrl, FALSE, "", <<>>),
     src |-> Source("git", NoUrl, FALSE, "", <<>>), step |-> 0, targetDir |-> 0,
     events |-> <<>>, failedAt |-> 0, path |-> <<>>, error |-> NoError,
     lastCleanup |-> "none", cloneUrl |-> <<>>, request |-> <<>>, accessible |-> TRUE,
     response |-> <<>>, packageId |-> <<>>]

Event(op, ok) == [op |-> op, ok |-> ok]

\* Variant: every call works in the one directory tmpdir()/js-report-card.
TargetDirShared(n) == 1

\* join(tmpdir(), 'js-report-card', uuidv4()) when n names have been drawn: uuidv4()
\* yields a name not drawn before, names being numbered in the order drawn.
TargetDir(n) == n + 1

\* download(source) up to its first await inside the try block: the validation of
\* git (URL) and local (path, access), the choice of the target directory and, for
\* git, the call of git.clone with the clone URL.
backendDownload(c, src, accessOk) ==
    /\ acq[c].pc \in {"idle", "failed", "released"}
    /\ ~accessOk => (src.type = "local" /\ ~PathIsEmpty(src.path))
    /\ LET invalid ==
               \/ src.type = "git" /\ ~isValidGitUrl(src.url)
               \/ src.type = "local" /\ (PathIsEmpty(src.path) \/ ~accessOk)
       IN  IF invalid
           THEN /\ acq' = [acq EXCEPT ![c] =
                       [IdleAcq EXCEPT !.pc = "failed", !.given = src, !.src = src,
                           !.accessible = accessOk,
                           !.error = BackendError("INVALID_SOURCE", src.type,
                                        IF src.type = "local" /\ ~PathIsEmpty(src.path)
                                        THEN "access" ELSE "none")]]
                /\ UNCHANGED <<dirs, nextUuid>>
           ELSE /\ nextUuid < MaxUuid
                /\ nextUuid' = nextUuid + 1
                /\ acq' = [acq EXCEPT ![c] =
                       [IdleAcq EXCEPT !.pc = "try", !.given = src, !.step = 1,
                           !.src = IF src.type = "git" THEN DescriptorAfterEmbedding(src)
                                   ELSE src,
                           !.cloneUrl = IF src.type = "git" THEN <<CloneUrl(src)>> ELSE <<>>,
                           !.targetDir = TargetDir(nextUuid)]]
                /\ UNCHANGED dirs
    /\ UNCHANGED <<dispatchVars, cacheVars, managerVars, keyVars>>

\* One step of the try block: it succeeds (ok) or throws; a failed clone or cp may
\* leave the target directory behind (partial).  The fetch step of zip, with the
\* two tests of the response that follow it, succeeds when resp is accepted.
tryStep(c, ok, partial, resp) ==
    /\ acq[c].pc = "try"
    /\ IF TrySteps(acq[c].src)[acq[c].step] = "fetch"
       THEN resp \in FetchOutcomes(acq[c].src.url) /\ ok = ResponseAccepted(resp)
       ELSE resp = Response(FALSE, FALSE, FALSE)
    /\ LET a == acq[c]
           st == TrySteps(a.src)[a.step]
           ev == Append(a.events, Event(st, ok \/ Swallowed(st)))
           last == a.step = Len(TrySteps(a.src))
           req == <<[url |-> a.src.url, authorization |-> AuthorizationHeader(a.src)]>>
       IN  /\ partial => (~ok /\ MayLeavePartial(st))
           /\ IF ok \/ Swallowed(st)
              THEN /\ dirs' = IF ok /\ Creates(st) THEN dirs \cup {a.targetDir}
                              ELSE IF ok /\ st = "rm" THEN dirs \ {a.targetDir}
                              ELSE dirs
                   /\ acq' = [acq EXCEPT ![c] =
                          IF last
                          THEN [a EXCEPT !.pc = "held", !.events = ev,
                                         !.path = <<WorkspacePath(a.src, a.targetDir)>>]
                          ELSE [a EXCEPT !.step = a.step + 1, !.events = ev,
                                         !.request = IF st = "fetch" THEN req ELSE @,
                                         !.response = IF st = "fetch" THEN <<resp>> ELSE @,
                                         !.packageId =
                                             IF st = "mkdir" /\ a.src.type = "npm"
                                             THEN <<PackageId(npmDesc)>> ELSE @]]
              ELSE /\ dirs' = IF partial THEN dirs \cup {a.targetDir} ELSE dirs
                   /\ acq' = [acq EXCEPT ![c] =
                          [a EXCEPT !.pc = "catch", !.events = ev, !.failedAt = Len(ev),
                                    !.request = IF st = "fetch" THEN req ELSE @,
                                    !.response = IF st = "fetch" THEN <<resp>> ELSE @]]
    /\ UNCHANGED nextUuid
    /\ UNCHANGED <<dispatchVars, cacheVars, managerVars, keyVars>>

\* Variant: rm without force, which rejects with ENOENT on a missing path.
RmOutcomesNoForce(exists) == IF exists THEN {TRUE, FALSE} ELSE {FALSE}

\* rm(path, {recursive: true, force: true}): whether it may resolve (TRUE) or
\* reject (FALSE); with force a path that does not exist is not an error.
RmOutcomes(exists) == IF exists THEN {TRUE, FALSE} ELSE {TRUE}

\* Variant: a failed removal is raised in place of the download error.
CatchErrorCleanupMasks(src, step, rmOk) ==
    IF rmOk
    THEN BackendError(FailureCode(src.type), src.type, FailureCause(src.type, step))
    ELSE BackendError("CLEANUP_FAILED", src.type, "rm")

\* The error the catch block throws after its rm(targetDir) resolved (rmOk) or
\* rejected and was logged.
CatchError(src, step, rmOk) ==
    BackendError(FailureCode(src.type), src.type, FailureCause(src.type, step))

\* Variant: the catch block removes the downloaded file inside the target
\* directory, not the directory.
catchBlockRemovesFileOnly(c, rmOk) ==
    /\ acq[c].pc = "catch"
    /\ rmOk \in RmOutcomes(acq[c].targetDir \in dirs)
    /\ LET a == acq[c]
       IN  /\ dirs' = dirs
           /\ acq' = [acq EXCEPT ![c] =
                  [a EXCEPT !.pc = "failed", !.events = Append(@, Event("rm", rmOk)),
                            !.error = CatchError(a.src, a.events[a.failedAt].op, rmOk)]]
    /\ UNCHANGED nextUuid
    /\ UNCHANGED <<dispatchVars, cacheVars, managerVars, keyVars>>

\* The catch block of download(): rm(targetDir, {recursive, force}) in its own
\* try/catch, then throw.
catchBlock(c, rmOk) ==
    /\ acq[c].pc = "catch"
    /\ rmOk \in RmOutcomes(acq[c].targetDir \in dirs)
    /\ LET a == acq[c]
       IN  /\ dirs' = IF rmOk THEN dirs \ {a.targetDir} ELSE dirs
           /\ acq' = [acq EXCEPT ![c] =
                  [a EXCEPT !.pc = "failed", !.events = Append(@, Event("rm", rmOk)),
                            !.error = CatchError(a.src, a.events[a.failedAt].op, rmOk)]]
    /\ UNCHANGED nextUuid
    /\ UNCHANGED <<dispatchVars, cacheVars, managerVars, keyVars>>

\* The returned cleanup closure: await rm(targetDir, {recursive: true, force: true})
cleanup(c, rmOk) ==
    /\ acq[c].pc \in {"held", "released"}
    /\ rmOk \in RmOutcomes(acq[c].targetDir \in dirs)
    /\ dirs' = IF rmOk THEN RemovePath(dirs, CleanupTarget(acq[c].src, acq[c].targetDir))
               ELSE dirs
    /\ acq' = [acq EXCEPT ![c] =
           [@ EXCEPT !.pc = IF rmOk THEN "released" ELSE @,
                     !.lastCleanup = IF ~rmOk THEN "threw"
                                     ELSE IF acq[c].targetDir \in dirs THEN "removed"
                                     ELSE "absent"]]
    /\ UNCHANGED nextUuid
    /\ UNCHANGED <<dispatchVars, cacheVars, managerVars, keyVars>>

InitBackend ==
    /\ dirs = {}
    /\ nextUuid = 0
    /\ acq = [c \in AcqIds |-> IdleAcq]

(***************************************************************************)
(* Cache keys (getCacheKey of git-downloader.ts and npm-downloader.ts)     *)
(***************************************************************************)
\* The last part of a key: a commit hash, a version, or a Date.now() timestamp.
KeyTail(kind, text, time) == [kind |-> kind, text |-> text, time |-> time]

\* A key `prefix:id[:ref]:tail`; ref is <<>> when the key has no ref part.
Key(prefix, id, ref, tail) == [prefix |-> prefix, id |-> id, ref |-> ref, tail |-> tail]

\* What `git rev-parse HEAD` prints in a directory: <<>> when it fails there (not a
\* repository, no commit), else the hash and a newline.
RevParseOutputs == {<<>>, <<"h1\n">>, <<"h2\n">>}

GitKeySources == {Source("git", HttpsUrl, ref, "", <<>>) : ref \in BOOLEAN}

NoKey == Key("none", "", <<>>, KeyTail("none", "", 0))

NoGitKey ==
    [called |-> FALSE, src |-> Source("git", HttpsUrl, FALSE, "", <<>>), cwdHead |-> <<>>,
     cloneHead |-> <<>>, at |-> 0, key |-> NoKey, prev |-> <<>>]

\* GitDownloader.getCacheKey(source).  simpleGit() is made without a base
\* directory, so revparse(['HEAD']) runs in the working directory of the process:
\* cwdHead is what it prints there.  cloneHead is what it would print in the tree
\* cloned for the descriptor (<<>>: none cloned, or no HEAD there); the method is
\* not given that tree.
gitGetCacheKey(src, cwdHead, cloneHead) ==
    /\ LET key == Key("git", src.url, IF src.ref THEN <<"ref">> ELSE <<>>,
                      IF cwdHead # <<>> THEN KeyTail("hash", Trim(cwdHead[1]), 0)
                      ELSE KeyTail("time", "", now))
       IN  gitKey' = [called |-> TRUE, src |-> src, cwdHead |-> cwdHead,
                      cloneHead |-> cloneHead, at |-> now, key |-> key,
                      prev |-> IF gitKey.called
                               THEN <<[key |-> gitKey.key, at |-> gitKey.at]>> ELSE <<>>]
    /\ UNCHANGED <<npmDesc, npmKey>>
    /\ UNCHANGED <<dispatchVars, cacheVars, managerVars, backendVars>>

\* NpmProjectSource {packageName, version?}: version "" stands for no version.
NpmSource(version) == [packageName |-> "pkg", version |-> version]

\* What `npm view <name> version` prints: <<>> when the command fails.
NpmViewOutputs == {<<>>, <<"2.0.0\n">>, <<"2.1.0\n">>}

\* resolved: the version a getCacheKey call on this descriptor object got from npm
\* view, <<>> when none did.
NoNpmKey == [called |-> FALSE, queried |-> FALSE, at |-> 0, key |-> NoKey, resolved |-> <<>>]

\* The caller makes a new descriptor object.
npmNewDescriptor(version) ==
    /\ npmDesc' = NpmSource(version)
    /\ npmKey' = NoNpmKey
    /\ UNCHANGED gitKey
    /\ UNCHANGED <<dispatchVars, cacheVars, managerVars, backendVars>>

\* Variant: the resolved version is kept in a local variable.
npmGetCacheKeyNoStore(viewOut) ==
    /\ StrTruthy(npmDesc.version) => viewOut = <<>>
    /\ LET queried == ~StrTruthy(npmDesc.version)
           version == IF queried /\ viewOut # <<>> THEN Trim(viewOut[1]) ELSE npmDesc.version
           failed == queried /\ viewOut = <<>>
       IN  /\ npmDesc' = npmDesc
           /\ npmKey' = [called |-> TRUE, queried |-> queried, at |-> now,
                         key |-> Key("npm", npmDesc.packageName, <<>>,
                                     IF failed THEN KeyTail("time", "", now)
                                     ELSE KeyTail("version", version, 0)),
                         resolved |-> IF queried /\ viewOut # <<>> THEN <<version>>
                                      ELSE npmKey.resolved]
    /\ UNCHANGED gitKey
    /\ UNCHANGED <<dispatchVars, cacheVars, managerVars, backendVars>>

\* NpmDownloader.getCacheKey(source) on the caller's descriptor: without a version
\* it runs npm view (viewOut) and stores the trimmed output in source.version; when
\* npm view fails the key ends in Date.now().
npmGetCacheKey(viewOut) ==
    /\ StrTruthy(npmDesc.version) => viewOut = <<>>
    /\ LET queried == ~StrTruthy(npmDesc.version)
           version == IF queried /\ viewOut # <<>> THEN Trim(viewOut[1]) ELSE npmDesc.version
           failed == queried /\ viewOut = <<>>
       IN  /\ npmDesc' = [npmDesc EXCEPT !.version = version]
           /\ npmKey' = [called |-> TRUE, queried |-> queried, at |-> now,
                         key |-> Key("npm", npmDesc.packageName, <<>>,
                                     IF failed THEN KeyTail("time", "", now)
                                     ELSE KeyTail("version", version, 0)),
                         resolved |-> IF queried /\ viewOut # <<>> THEN <<version>>
                                      ELSE npmKey.resolved]
    /\ UNCHANGED gitKey
    /\ UNCHANGED <<dispatchVars, cacheVars, managerVars, backendVars>>

InitKeys ==
    /\ gitKey = NoGitKey
    /\ npmDesc = NpmSource("")
    /\ npmKey = NoNpmKey

\* getCacheKey of the git backend, called at any time in any environment.
NextGitKey ==
    \/ \E src \in GitKeySources, cwdHead \in RevParseOutputs, cloneHead \in RevParseOutputs :
           gitGetCacheKey(src, cwdHead, cloneHead)
    \/ Tick

\* One caller using one npm descriptor object for getCacheKey and download.
NextNpmKey ==
    \/ \E version \in {"", "1.0.0"} : npmNewDescriptor(version)
    \/ \E viewOut \in NpmViewOutputs : npmGetCacheKey(viewOut)
    \/ backendDownload("c1", Source("npm", NoUrl, FALSE, "", <<>>), TRUE)
    \/ \E ok \in BOOLEAN : tryStep("c1", ok, FALSE, Response(FALSE, FALSE, FALSE))
    \/ \E rmOk \in BOOLEAN : catchBlock("c1", rmOk)
    \/ \E rmOk \in BOOLEAN : cleanup("c1", rmOk)
    \/ Tick

NextBackend ==
    \/ \E c \in AcqIds, src \in BackendSources, accessOk \in BOOLEAN :
           backendDownload(c, src, accessOk)
    \/ \E c \in AcqIds, ok \in BOOLEAN, partial \in BOOLEAN,
          resp \in {Response(FALSE, FALSE, FALSE), Response(TRUE, TRUE, TRUE)} :
           tryStep(c, ok, partial, resp)
    \/ \E c \in AcqIds, rmOk \in BOOLEAN : catchBlock(c, rmOk)
    \/ \E c \in AcqIds, rmOk \in BOOLEAN : cleanup(c, rmOk)

\* One caller downloading git and zip descriptors with all kinds of URLs,
\* credentials and responses.
NextAuth ==
    \/ \E src \in AuthSources : backendDownload("c1", src, TRUE)
    \/ \E ok \in BOOLEAN, partial \in BOOLEAN, resp \in Responses :
           tryStep("c1", ok, partial, resp)
    \/ \E rmOk \in BOOLEAN : catchBlock("c1", rmOk)
    \/ \E rmOk \in BOOLEAN : cleanup("c1", rmOk)

Init == InitDispatch /\ InitCache /\ InitManager /\ InitBackend /\ InitKeys

NextDispatch ==
    \/ \E id \in DownloaderIds, dl \in DownloaderObjs : registerDownloader(id, dl)
    \/ \E source \in Sources, outcome \in BackendOutcomes : download(source, outcome)

SpecDispatch == Init /\ [][NextDispatch]_vars

(***************************************************************************)
(* Properties of the dispatcher                                            *)
(***************************************************************************)
Tagged(source) == Truthy(source) /\ TypeTruthy(source)

\* Registry positions whose backend accepts the descriptor of the last call.
Matching == {i \in 1..Len(downloaders) : canHandle(downloaders[i].dl, dcall.source)}

\* C1: first match wins.  After download(d) with a tagged d that some backend
\* accepts, canHandle was called on the registry positions 1..f in insertion order,
\* f being the first accepting position, download was called on f only, and no
\* position after f had canHandle or download called.
C1_FirstMatchWins ==
    (dcall.state = "done" /\ Tagged(dcall.source) /\ Matching # {}) =>
        \E f \in Matching :
            /\ \A k \in Matching : f <= k
            /\ dcall.invoked = <<f>>
            /\ dcall.asked = [j \in 1..f |-> j]
            /\ \A j \in 1..Len(downloaders) :
                   j > f => (j \notin Range(dcall.asked) /\ j \notin Range(dcall.invoked))

\* A call on a registry with two accepting backends and a rejecting one before them.
C1_Witness ==
    /\ dcall.state = "done" /\ Tagged(dcall.source)
    /\ Len(downloaders) = 3
    /\ Matching = {2, 3}
    /\ dcall.invoked = <<2>>

\* C2: download(null), download(undefined) and download of a descriptor without a
\* type tag fail with DownloaderError INVALID_SOURCE, sourceType 'unknown', and no
\* backend's canHandle or download has been called, whatever the registry holds.
C2_InvalidSourceBeforeBackends ==
    (dcall.state = "done" /\ ~Tagged(dcall.source)) =>
        /\ dcall.error.class = "DownloaderError"
        /\ dcall.error.code = "INVALID_SOURCE"
        /\ dcall.error.sourceType = "unknown"
        /\ dcall.asked = <<>>
        /\ dcall.invoked = <<>>

\* An untagged object was rejected although the registry holds an accept-all backend.
C2_Witness ==
    /\ dcall.state = "done"
    /\ dcall.source = [kind |-> "object", type |-> ""]
    /\ \E i \in 1..Len(downloaders) : downloaders[i].dl = "dAll"
    /\ dcall.error.code = "INVALID_SOURCE"

\* C3 (as claimed): when the chosen backend fails with anything that is not a
\* DownloaderError - a plain Error or a non-Error value - download fails with a
\* DownloaderError DOWNLOAD_FAILED whose cause is the thrown value; a
\* DownloaderError is propagated unchanged.
C3_WrapsEveryUntypedFailure ==
    (dcall.state = "done" /\ dcall.invoked # <<>> /\ dcall.backend # NoError) =>
        IF dcall.backend.class = "DownloaderError"
        THEN dcall.error = dcall.backend
        ELSE /\ dcall.error.class = "DownloaderError"
             /\ dcall.error.code = "DOWNLOAD_FAILED"
             /\ dcall.error.cause = dcall.backend.origin

\* C16: download of a tagged descriptor that no registered backend accepts - the
\* registry may be empty - fails with DownloaderError DOWNLOADER_NOT_FOUND whose
\* sourceType is the descriptor's type; canHandle of every registered backend was
\* called, in order, and download of none.
C16_NoMatchIsDownloaderNotFound ==
    (dcall.state = "done" /\ Tagged(dcall.source) /\ Matching = {}) =>
        /\ dcall.error.class = "DownloaderError"
        /\ dcall.error.code = "DOWNLOADER_NOT_FOUND"
        /\ dcall.error.sourceType = dcall.source.type
        /\ dcall.asked = [j \in 1..Len(downloaders) |-> j]
        /\ dcall.invoked = <<>>
        /\ dcall.backend = NoError

\* An npm descriptor on a registry of three backends of which none accepts npm.
C16_Witness ==
    /\ dcall.state = "done" /\ dcall.source = [kind |-> "object", type |-> "npm"]
    /\ Len(downloaders) = 3
    /\ Matching = {}
    /\ dcall.asked = <<1, 2, 3>>
    /\ dcall.error.code = "DOWNLOADER_NOT_FOUND"

\* C17: registerDownloader(id, b2) on an id that maps to b1 replaces b1 without an
\* error: the registry keeps one entry per id, the entry of id keeps the position it
\* got when id was first registered and now holds b2, every other entry is as it
\* was, and a later download consults the backends in that order, so b1 is
\* consulted no more and b2 is consulted at the old position.
C17_ReRegisterReplacesInPlace ==
    /\ [](\A i, j \in 1..Len(downloaders) :
            i # j => downloaders[i].id # downloaders[j].id)
    /\ [][downloaders' # downloaders =>
            \E id \in DownloaderIds, dl \in DownloaderObjs :
                IF id \in IdsOf(downloaders)
                THEN /\ Len(downloaders') = Len(downloaders)
                     /\ dcall'.replaced = IndexOfId(downloaders, id)
                     /\ \A j \in 1..Len(downloaders) :
                            downloaders'[j] =
                                IF downloaders[j].id = id THEN [id |-> id, dl |-> dl]
                                ELSE downloaders[j]
                ELSE /\ downloaders' = Append(downloaders, [id |-> id, dl |-> dl])
                     /\ dcall'.replaced = 0]_vars
    /\ [](dcall.state = "done" =>
            \E k \in 0..Len(downloaders) :
                /\ dcall.asked = [j \in 1..k |-> j]
                /\ \A j \in 1..k : j < k => ~canHandle(downloaders[j].dl, dcall.source))

\* The backend of the first of three ids was replaced; the download that followed
\* invoked the new backend at position 1 although the backends after it accept the
\* descriptor too.
C17_Witness ==
    /\ dcall.state = "done" /\ dcall.replaced = 1
    /\ Len(downloaders) = 3
    /\ Matching = {1, 2, 3}
    /\ dcall.invoked = <<1>>
    /\ dcall.asked = <<1>>

\* C18 (as claimed): every error raised by download() of a built-in backend and by
\* ProjectDownloader.download is a DownloaderError carrying a code and a source
\* type; no other kind of value escapes.
C18_OnlyTypedErrorsEscape ==
    /\ \A c \in AcqIds :
           acq[c].pc = "failed" =>
               /\ acq[c].error.class = "DownloaderError"
               /\ acq[c].error.code # "none"
               /\ acq[c].error.sourceType = acq[c].src.type
    /\ (dcall.state = "done" /\ dcall.error # NoError) =>
           /\ dcall.error.class = "DownloaderError"
           /\ dcall.error.code # "none"
           /\ dcall.error.sourceType # "none"

SpecCache == Init /\ [][NextCache]_vars

SpecManager == Init /\ [][NextManager]_vars

SpecBackend == Init /\ [][NextBackend]_vars

SpecAuth == Init /\ [][NextAuth]_vars

SpecGitKey == Init /\ [][NextGitKey]_vars

SpecNpmKey == Init /\ [][NextNpmKey]_vars

SpecConcurrent == Init /\ [][NextConcurrent]_vars

\* Managers constructed with maxCacheAge 0, without maxCacheAge and with 2, on a
\* cache that is empty or holds an entry stored one millisecond less than 24 hours
\* before the clock's origin.
MaxAgeOptions ==
    {[cache |-> TRUE, maxCacheAge |-> a] : a \in {<<0>>, <<>>, <<2>>}}

DayOldEntry == CacheEntry(1 - DefaultMaxCacheAge, Metadata("k1"), <<Result("a", 100)>>)

InitMaxAge ==
    /\ InitDispatch /\ InitBackend /\ InitKeys
    /\ cache \in {EmptyMap, [k \in {"k1"} |-> DayOldEntry]}
    /\ cacheOp = [op |-> "none", key |-> "k1", before |-> EmptyMap, result |-> Null]
    /\ writes = [k \in CacheKeys |-> <<>>]
    /\ options \in MaxAgeOptions
    /\ analyzers = <<>>
    /\ regOp = [obj |-> "a1", error |-> NoAnalyzerError]
    /\ now = 0
    /\ runs = [r \in Runs |-> IdleRun]
    /\ clean = NoCleanup

NextMaxAge ==
    \/ registerAnalyzer("a1")
    \/ runAnalysis("r1", <<"k1">>, NoConfigs)
    \/ resumeGet("r1")
    \/ \E score \in {0, 50, 100} : analyzeDone("r1", score)
    \/ store("r1")
    \/ Tick

SpecMaxAge == InitMaxAge /\ [][NextMaxAge]_vars

SpecCleanup == Init /\ [][NextCleanup]_vars

\* C30: when the download of the backend the dispatcher chose rejects, the call
\* rejects too, with that rejection (rethrown, or wrapped when it is not an Error):
\* the chosen backend's download was called once and nothing else was - no second
\* attempt, and no backend registered after it had canHandle or download called,
\* whether or not it accepts the descriptor.
C30_BackendFailureIsTerminal ==
    (dcall.state = "done" /\ dcall.backend # NoError) =>
        /\ Len(dcall.invoked) = 1
        /\ dcall.invoked[1] \in Matching
        /\ dcall.asked = [j \in 1..dcall.invoked[1] |-> j]
        /\ \A j \in 1..Len(downloaders) :
               j > dcall.invoked[1] =>
                   (j \notin Range(dcall.asked) /\ j \notin Range(dcall.invoked))
        /\ dcall.error # NoError
        /\ dcall.error = dcall.backend \/ dcall.error.cause = dcall.backend.origin

\* The first of two backends that accept the descriptor failed: the call failed
\* and the second, registered later, was neither asked nor used.
C30_Witness ==
    /\ dcall.state = "done" /\ dcall.backend # NoError
    /\ Len(downloaders) = 2
    /\ Matching = {1, 2}
    /\ dcall.invoked = <<1>> /\ dcall.asked = <<1>>
    /\ dcall.error # NoError

(***************************************************************************)
(* Properties of the built-in backends                                     *)
(***************************************************************************)
\* Positions of the removal attempts of the target directory made after the try
\* block threw.
RemovalsAfterFailure(a) ==
    {x \in (a.failedAt + 1)..Len(a.events) : a.events[x].op = "rm"}

\* C4: for git, zip, npm and local, a failure after the target directory was
\* chosen is followed by exactly one removal attempt of that directory, made before
\* the error is raised, and the error raised is the backend's DownloaderError
\* (GIT_CLONE_FAILED / ZIP_DOWNLOAD_FAILED / NPM_DOWNLOAD_FAILED / LOCAL_COPY_FAILED)
\* whether that removal succeeded or failed.
C4_FailureRemovesTargetOnce ==
    \A c \in AcqIds :
        LET a == acq[c]
        IN  /\ (a.pc = "failed" /\ a.targetDir # 0) =>
                /\ a.failedAt > 0
                /\ Cardinality(RemovalsAfterFailure(a)) = 1
                /\ a.events[Len(a.events)].op = "rm"
                /\ a.error.class = "DownloaderError"
                /\ a.error.sourceType = a.src.type
                /\ a.error.code =
                       CASE a.src.type = "git" -> "GIT_CLONE_FAILED"
                         [] a.src.type = "zip" -> "ZIP_DOWNLOAD_FAILED"
                         [] a.src.type = "npm" -> "NPM_DOWNLOAD_FAILED"
                         [] a.src.type = "local" -> "LOCAL_COPY_FAILED"
            /\ (a.failedAt > 0 /\ a.pc # "failed") =>
                (a.pc = "catch" /\ RemovalsAfterFailure(a) = {} /\ a.error = NoError)

\* A zip download whose extraction failed and whose removal attempt failed too:
\* the directory is still there and the error is ZIP_DOWNLOAD_FAILED.
C4_Witness ==
    \E c \in AcqIds :
        LET a == acq[c]
        IN  /\ a.pc = "failed" /\ a.src.type = "zip"
            /\ a.events[a.failedAt].op = "extract"
            /\ ~a.events[Len(a.events)].ok
            /\ a.targetDir \in dirs
            /\ a.error.code = "ZIP_DOWNLOAD_FAILED"

\* C14: every backend call that gets past validation works in a target directory
\* whose name was drawn for it - not drawn before, and used by no other call, earlier
\* or in flight; two calls holding workspaces hold distinct paths, also for the same
\* local path; and no step of a call, its release included, removes a directory
\* other than the call's own.
C14_TargetDirectoriesAreFresh ==
    /\ [](\A c \in AcqIds : acq[c].targetDir <= nextUuid)
    /\ [](\A c1, c2 \in AcqIds :
            (c1 # c2 /\ acq[c1].targetDir # 0 /\ acq[c2].targetDir # 0) =>
                /\ acq[c1].targetDir # acq[c2].targetDir
                /\ (acq[c1].path # <<>> /\ acq[c2].path # <<>>) =>
                       acq[c1].path[1].dir # acq[c2].path[1].dir)
    /\ [](\A c \in AcqIds : acq[c].path # <<>> => acq[c].path[1].dir = acq[c].targetDir)
    /\ [][\A c \in AcqIds :
            acq'[c] # acq[c] =>
                /\ (acq[c].pc \in {"idle", "failed", "released"} /\ acq'[c].pc = "try") =>
                       acq'[c].targetDir > nextUuid
                /\ dirs \ dirs' \subseteq {acq[c].targetDir}]_vars

\* Two calls copied the same local path; the first was released and its directory
\* is gone, the second still holds its own directory.
C14_Witness ==
    /\ acq["c1"].src.type = "local" /\ acq["c2"].src = acq["c1"].src
    /\ acq["c1"].pc = "released" /\ acq["c2"].pc = "held"
    /\ acq["c1"].targetDir \notin dirs
    /\ acq["c2"].targetDir \in dirs
    /\ acq["c1"].path # acq["c2"].path

\* C15: the cleanup of a workspace whose directory is already gone resolves and
\* leaves it gone: a cleanup call rejects only while the directory is there, a
\* released workspace has no directory, and a second cleanup after a first that
\* resolved resolves too.
C15_CleanupToleratesMissingDirectory ==
    /\ [](\A c \in AcqIds :
            /\ acq[c].pc = "released" => acq[c].targetDir \notin dirs
            /\ acq[c].lastCleanup = "threw" => acq[c].targetDir \in dirs
            /\ acq[c].lastCleanup = "absent" => acq[c].pc = "released")
    /\ [][\A c \in AcqIds :
            (acq[c].pc = "released" /\ acq'[c].pc = "released" /\ acq'[c] # acq[c]) =>
                /\ acq'[c].lastCleanup = "absent"
                /\ dirs' = dirs]_vars

\* cleanup() was called again on a released git workspace and resolved.
C15_Witness ==
    \E c \in AcqIds :
        /\ acq[c].src.type = "git"
        /\ acq[c].pc = "released" /\ acq[c].lastCleanup = "absent"
        /\ acq[c].targetDir \notin dirs

\* C21: GitDownloader.download leaves the caller's descriptor as it was passed - url
\* and every other field - at every point of the call and after it returned or
\* failed, also when auth is given; the URL with the credentials is the one handed
\* to git.clone only.
C21_DescriptorIsNotMutated ==
    \A c \in AcqIds :
        acq[c].given.type = "git" =>
            /\ acq[c].src = acq[c].given
            /\ (acq[c].cloneUrl # <<>> /\ acq[c].given.auth = <<>>) =>
                   acq[c].cloneUrl[1] = acq[c].given.url

\* A clone with username and token failed: the URL that went to git.clone carries
\* the credentials, the descriptor's url carries none.
C21_Witness ==
    \E c \in AcqIds :
        /\ acq[c].pc = "failed" /\ acq[c].given.type = "git"
        /\ acq[c].given.auth = <<Auth("u", "T")>>
        /\ acq[c].cloneUrl # <<>>
        /\ acq[c].cloneUrl[1].username = "u" /\ acq[c].cloneUrl[1].password = "T"
        /\ acq[c].src.url.username = "" /\ acq[c].src.url.password = ""

\* C22: the URL GitDownloader hands to git.clone is, with auth {token: T} only, the
\* descriptor URL with T as its username and the password it had; with auth
\* {username: u, token: T}, the descriptor URL with username u and password T; and
\* without auth the descriptor URL itself.  Credentials are written the way URL
\* writes them (percent-encoded), everything else of the URL is kept.
C22_CredentialsInCloneUrl ==
    \A c \in AcqIds :
        LET a == acq[c]
            g == a.given
        IN  (g.type = "git" /\ a.cloneUrl # <<>>) =>
                LET u == a.cloneUrl[1]
                IN  /\ u.parses /\ u.protocol = g.url.protocol
                    /\ g.auth = <<>> => u = g.url
                    /\ (g.auth # <<>> /\ g.auth[1].username = "" /\ g.auth[1].token # "") =>
                           /\ u.username = PercentEncode(g.auth[1].token)
                           /\ u.password = g.url.password
                    /\ (g.auth # <<>> /\ g.auth[1].username # "" /\ g.auth[1].token # "") =>
                           /\ u.username = PercentEncode(g.auth[1].username)
                           /\ u.password = PercentEncode(g.auth[1].token)

\* git.clone was called for an https URL with username u and token T.
C22_Witness ==
    \E c \in AcqIds :
        /\ acq[c].given.type = "git" /\ acq[c].given.url = HttpsUrl
        /\ acq[c].given.auth = <<Auth("u", "T")>>
        /\ acq[c].pc = "held"
        /\ acq[c].cloneUrl = <<Url(TRUE, "https:", "u", "T", TRUE)>>

\* C23: the request ZipDownloader sends carries Authorization: Basic
\* base64(username:token) when auth has both username and token, Authorization:
\* Bearer token when it has a token only, and no Authorization header without auth
\* or with an auth that has no token; the request goes to the descriptor's url.
C23_ZipAuthorizationHeader ==
    \A c \in AcqIds :
        LET a == acq[c]
            g == a.given
        IN  (g.type = "zip" /\ a.request # <<>>) =>
                /\ a.request[1].url = g.url
                /\ a.request[1].authorization =
                       IF g.auth # <<>> /\ g.auth[1].username # "" /\ g.auth[1].token # ""
                       THEN <<[scheme |-> "Basic", encoding |-> "base64",
                               text |-> <<g.auth[1].username, ":", g.auth[1].token>>]>>
                       ELSE IF g.auth # <<>> /\ g.auth[1].token # ""
                            THEN <<[scheme |-> "Bearer", encoding |-> "none",
                                    text |-> <<g.auth[1].token>>]>>
                            ELSE <<>>

\* A zip download with username and token was fetched with a Basic header.
C23_Witness ==
    \E c \in AcqIds :
        /\ acq[c].given.type = "zip" /\ acq[c].given.auth = <<Auth("u", "T")>>
        /\ acq[c].pc = "held"
        /\ acq[c].request # <<>>
        /\ acq[c].request[1].authorization[1].scheme = "Basic"

\* A call that was rejected at validation: INVALID_SOURCE, no target directory
\* chosen, no clone, copy or removal attempted.
RejectedBeforeAnyEffect(a) ==
    /\ a.pc = "failed"
    /\ a.error.code = "INVALID_SOURCE" /\ a.error.origin = "backend"
    /\ a.targetDir = 0
    /\ a.events = <<>>
    /\ a.cloneUrl = <<>>

\* C24: GitDownloader.download goes on only with a URL whose scheme is a secure
\* transport (https:) or SSH (ssh:); every other URL - another scheme, or a string
\* that does not parse as a URL - is rejected with INVALID_SOURCE before a target
\* directory is chosen, before git.clone is called and without any rm.
C24_OnlySecureOrSshSchemes ==
    \A c \in AcqIds :
        (/\ acq[c].pc # "idle"
         /\ acq[c].given.type = "git"
         /\ ~(acq[c].given.url.parses /\ acq[c].given.url.protocol \in {"https:", "ssh:"}))
        => RejectedBeforeAnyEffect(acq[c])

\* C25: LocalDownloader.download with an empty or whitespace-only path, or with a
\* path that access() does not find, fails with INVALID_SOURCE before a target
\* directory is chosen or created and without any cp or rm; with a valid path the
\* descriptor stays as passed, cp and rm (on the target directory) are the only
\* calls, and the call that returns has made one cp into its fresh target
\* directory and returns that directory as the workspace path.
C25_LocalValidatesThenCopies ==
    \A c \in AcqIds :
        LET a == acq[c]
        IN  (a.pc # "idle" /\ a.given.type = "local") =>
                IF Trim(a.given.path) = "" \/ ~a.accessible
                THEN RejectedBeforeAnyEffect(a) /\ a.targetDir \notin dirs
                ELSE /\ a.targetDir # 0
                     /\ a.src = a.given
                     /\ \A i \in 1..Len(a.events) : a.events[i].op \in {"cp", "rm"}
                     /\ a.pc \in {"held", "released"} =>
                            /\ a.events = <<Event("cp", TRUE)>>
                            /\ a.path = <<Path(a.targetDir, "")>>
                     /\ a.pc = "held" /\ a.lastCleanup = "none" => a.targetDir \in dirs

\* One call was rejected for a whitespace-only path while another call's copy of
\* a valid path is held.
C25_Witness ==
    /\ acq["c1"].pc = "failed" /\ acq["c1"].given.type = "local"
    /\ acq["c1"].given.path = " "
    /\ acq["c2"].pc = "held" /\ acq["c2"].given.type = "local"
    /\ acq["c2"].given.path = "/project" /\ acq["c2"].path # <<>>

\* C31: for git, zip, npm and local, the target directory of a call that returned
\* exists as long as its cleanup has not resolved, whatever other calls do, and is
\* absent once cleanup resolved; the target directory of a call that failed is
\* absent when the removal attempt of its catch block succeeded.  A step creates
\* no directory but the target directory of the call that takes it, so calls that
\* were released, or failed with a successful removal, leave nothing behind.
C31_WorkspaceLifecycle ==
    /\ [](\A c \in AcqIds :
            LET a == acq[c]
            IN  /\ a.pc = "held" => a.targetDir \in dirs
                /\ a.pc = "released" => a.targetDir \notin dirs
                /\ (a.pc = "failed" /\ a.targetDir # 0 /\ a.events[Len(a.events)].ok) =>
                       a.targetDir \notin dirs)
    /\ [](dirs \subseteq 1..nextUuid)
    /\ [][/\ \A d \in dirs' \ dirs :
                \E c \in AcqIds : /\ acq[c].pc = "try" /\ acq[c].targetDir = d
                                  /\ acq'[c] # acq[c]
          /\ \A c \in AcqIds :
                (acq[c].pc = "held" /\ acq'[c] = acq[c]) => acq[c].targetDir \in dirs'
          /\ \A c \in AcqIds :
                (acq[c].pc \in {"held", "catch"} /\ acq'[c].pc \in {"released", "failed"}
                   /\ acq'[c].events[Len(acq'[c].events)].ok
                   /\ \A o \in AcqIds \ {c} : acq[o].targetDir \notin dirs) =>
                    dirs' \subseteq dirs \ {acq[c].targetDir}]_vars

\* An npm workspace was released and a zip download failed after its directory
\* was made; the removals succeeded and no directory is left.
C31_Witness ==
    /\ acq["c1"].pc = "released" /\ acq["c1"].src.type = "npm"
    /\ acq["c1"].lastCleanup = "removed"
    /\ acq["c2"].pc = "failed" /\ acq["c2"].src.type = "zip"
    /\ acq["c2"].events[acq["c2"].failedAt].op = "extract"
    /\ acq["c2"].events[Len(acq["c2"].events)] = Event("rm", TRUE)
    /\ dirs = {}

\* C32: an npm download that returns has run rm, mkdir, npm pack, tar and the
\* removal of the tarball, in this order and each successfully, and returns the
\* directory 'package' inside its target directory; its cleanup removes the
\* target directory itself, so that after cleanup resolved nothing of it is left.
C32_NpmReturnsPackageSubdirectory ==
    /\ [](\A c \in AcqIds :
            LET a == acq[c]
            IN  (a.src.type = "npm" /\ a.pc \in {"held", "released"}) =>
                    /\ a.path = <<Path(a.targetDir, "package")>>
                    /\ a.events = <<Event("rm", TRUE), Event("mkdir", TRUE),
                                    Event("npm pack", TRUE), Event("tar", TRUE),
                                    Event("rmTarball", TRUE)>>
                    /\ a.pc = "released" => a.targetDir \notin dirs)
    /\ [][\A c \in AcqIds :
            (acq[c].src.type = "npm" /\ acq[c].pc = "held" /\ acq'[c].pc = "released") =>
                /\ acq[c].targetDir \in dirs
                /\ dirs' = dirs \ {acq[c].targetDir}]_vars

\* The cleanup of an npm workspace removed its target directory.
C32_Witness ==
    \E c \in AcqIds :
        /\ acq[c].src.type = "npm" /\ acq[c].pc = "released"
        /\ acq[c].lastCleanup = "removed"
        /\ acq[c].path[1].sub = "package"
        /\ acq[c].targetDir \notin dirs

\* C33: when the response of a zip download has a status that is not ok, or has no
\* body, the try block throws right there: no pipeline, extract or removal of the
\* zip file is run, the catch block attempts the removal of the target directory,
\* and then the call fails with the DownloaderError ZIP_DOWNLOAD_FAILED.
C33_ZipBadResponseFails ==
    \A c \in AcqIds :
        LET a == acq[c]
        IN  (/\ a.src.type = "zip" /\ a.response # <<>>
             /\ a.response[1].settled
             /\ (~a.response[1].ok \/ ~a.response[1].body)) =>
                /\ a.pc \in {"catch", "failed"}
                /\ a.failedAt = 3 /\ a.events[3] = Event("fetch", FALSE)
                /\ \A x \in 1..Len(a.events) :
                       a.events[x].op \notin {"pipeline", "extract", "rmZip"}
                /\ a.pc = "catch" => (Len(a.events) = 3 /\ a.error = NoError)
                /\ a.pc = "failed" =>
                       /\ Len(a.events) = 4 /\ a.events[4].op = "rm"
                       /\ a.error.class = "DownloaderError"
                       /\ a.error.code = "ZIP_DOWNLOAD_FAILED"
                       /\ a.error.sourceType = "zip"

\* A zip download got a response with status ok and no body, and failed after the
\* target directory was removed.
C33_Witness ==
    \E c \in AcqIds :
        /\ acq[c].src.type = "zip" /\ acq[c].pc = "failed"
        /\ acq[c].response = <<Response(TRUE, TRUE, FALSE)>>
        /\ acq[c].events[Len(acq[c].events)] = Event("rm", TRUE)
        /\ acq[c].targetDir \notin dirs
        /\ acq[c].error.code = "ZIP_DOWNLOAD_FAILED"

\* C34: a zip download whose URL is not an http: or https: URL - another scheme,
\* or a string that does not parse as a URL - obtains no response and never returns
\* a workspace: it fails, with a DownloaderError.
C34_ZipRequiresHttpUrl ==
    \A c \in AcqIds :
        LET a == acq[c]
        IN  (/\ a.pc # "idle" /\ a.given.type = "zip"
             /\ ~(a.given.url.parses /\ a.given.url.protocol \in {"http:", "https:"})) =>
                /\ a.pc \notin {"held", "released"}
                /\ a.response = <<>> \/ ~a.response[1].settled
                /\ a.pc = "failed" => a.error.class = "DownloaderError"

\* C35: the key GitDownloader.getCacheKey returns is git:url[:ref]:hash with the
\* HEAD hash of the tree cloned for the descriptor whenever that tree has one, and
\* git:url[:ref]:<Date.now()> when it has none; two keys that end in a timestamp
\* and were obtained at different times differ.
C35_GitKeyUsesCloneHead ==
    gitKey.called =>
        /\ gitKey.key.prefix = "git" /\ gitKey.key.id = gitKey.src.url
        /\ gitKey.key.ref = (IF gitKey.src.ref THEN <<"ref">> ELSE <<>>)
        /\ gitKey.key.tail =
               IF gitKey.cloneHead # <<>> THEN KeyTail("hash", Trim(gitKey.cloneHead[1]), 0)
               ELSE KeyTail("time", "", gitKey.at)
        /\ (gitKey.prev # <<>> /\ gitKey.key.tail.kind = "time"
               /\ gitKey.prev[1].key.tail.kind = "time" /\ gitKey.prev[1].at # gitKey.at) =>
                gitKey.prev[1].key # gitKey.key

\* C36: once NpmDownloader.getCacheKey has resolved the version V for a descriptor
\* object (one that had no version), V is the descriptor's version field from then
\* on; every later getCacheKey on that object runs no npm view, leaves the
\* descriptor as it is and returns npm:name:V, and a download that reads the
\* descriptor after that packs name@V.
C36_ResolvedVersionIsStored ==
    /\ [](npmKey.resolved # <<>> =>
            /\ npmDesc.version = npmKey.resolved[1]
            /\ npmKey.key = Key("npm", npmDesc.packageName, <<>>,
                                KeyTail("version", npmKey.resolved[1], 0)))
    /\ [][npmKey.resolved # <<>> =>
            /\ (npmKey' # npmKey /\ npmKey'.called) =>
                   /\ ~npmKey'.queried
                   /\ npmDesc' = npmDesc
                   /\ npmKey'.key = npmKey.key
            /\ \A c \in AcqIds :
                   (acq[c].packageId = <<>> /\ acq'[c].packageId # <<>>) =>
                       acq'[c].packageId =
                           <<[packageName |-> npmDesc.packageName,
                              version |-> npmKey.resolved]>>]_vars

\* npm view gave 2.0.0 for a descriptor without version; a later getCacheKey ran
\* no query, and a download made with the descriptor packed pkg@2.0.0.
C36_Witness ==
    /\ npmKey.resolved = <<"2.0.0">> /\ ~npmKey.queried
    /\ npmDesc = NpmSource("2.0.0")
    /\ acq["c1"].pc = "held"
    /\ acq["c1"].packageId = <<[packageName |-> "pkg", version |-> <<"2.0.0">>]>>

(***************************************************************************)
(* Properties of the AnalyzerManager                                       *)
(***************************************************************************)
\* How often `op` of analyzer o was invoked in a call log.
Invocations(calls, op, o) == Cardinality({c \in 1..Len(calls) : calls[c] = Call(op, o)})

Invoked(calls, o) == \E c \in 1..Len(calls) : calls[c].obj = o

\* C5: with a cache and fingerprint metadata, a call whose cache.get found an entry
\* under metadata.version with age now - timestamp < maxCacheAge at the validity test
\* returns exactly that entry's results, invokes no validateConfig or analyze, and
\* does not write the cache.
C5_FreshEntryIsServed ==
    \A r \in Runs :
        LET run == runs[r]
        IN  (/\ run.pc = "done" /\ options.cache /\ run.key # <<>>
             /\ run.cached # Null
             /\ run.checkedAt - run.cached[1].timestamp < maxCacheAge) =>
                /\ run.cached[1].source.version = run.key[1]
                /\ run.returned = <<run.cached[1].results>>
                /\ run.error = NoAnalyzerError
                /\ run.calls = <<>>
                /\ ~run.wrote

\* A hit on an entry of age 1 with results in it, in a call whose configs enable a
\* registered analyzer.
C5_Witness ==
    \E r \in Runs :
        LET run == runs[r]
        IN  /\ run.pc = "done" /\ run.fromCache
            /\ run.checkedAt - run.cached[1].timestamp = 1
            /\ run.cached[1].results # <<>>
            /\ \E j \in 1..Len(analyzers) :
                   ResolveConfig(run.configs, AnalyzerId(analyzers[j])).enabled

\* A call that found an entry whose max-age had elapsed at the validity test.
FoundStale(run) ==
    /\ run.cached # Null
    /\ run.checkedAt >= 0
    /\ run.checkedAt - run.cached[1].timestamp >= maxCacheAge

\* C6: a call that finds an entry whose max-age has elapsed invokes analyze of every
\* enabled analyzer again and, when none fails, writes under the same key an entry
\* holding the fresh results and the Date.now() of the write - an entry that is
\* within max-age at that moment - and returns those results.
C6_StaleEntryIsRecomputed ==
    /\ [](\A r \in Runs :
            LET run == runs[r]
            IN  (run.pc = "done" /\ FoundStale(run) /\ run.failure = <<>>) =>
                    /\ ~run.fromCache
                    /\ run.wrote
                    /\ run.returned = <<run.results>>
                    /\ \A j \in 1..run.n :
                           ResolveConfig(run.configs, AnalyzerId(analyzers[j])).enabled
                               => Invocations(run.calls, "analyze", analyzers[j]) = 1)
    /\ [][\A r \in Runs :
            (runs[r].pc = "await_run" /\ runs'[r].pc = "done" /\ FoundStale(runs[r])) =>
                /\ runs[r].key[1] \in DOMAIN cache'
                /\ cache'[runs[r].key[1]] =
                       CacheEntry(now, Metadata(runs[r].key[1]), runs'[r].returned[1])
                /\ isCacheValid(cache'[runs[r].key[1]], now')]_vars

\* A recomputation whose fresh entry replaced a stale one with other results.
C6_Witness ==
    \E r \in Runs :
        LET run == runs[r]
        IN  /\ run.pc = "done" /\ FoundStale(run) /\ run.wrote
            /\ run.results # <<>>
            /\ run.results # run.cached[1].results
            /\ cache[run.key[1]].timestamp > run.cached[1].timestamp
            /\ cache[run.key[1]].results = run.results

\* C7: in a call that neither hits the cache nor fails, analyze of a registered
\* analyzer is called exactly once if its resolved config (configs[id], or
\* {enabled: true} without an entry) is enabled and never otherwise; a disabled
\* analyzer has neither validateConfig nor analyze called, in any call, and no
\* element in the results.
C7_InvokedIffEnabled ==
    \A r \in Runs :
        LET run == runs[r]
        IN  /\ \A c \in 1..Len(run.calls) :
                   ResolveConfig(run.configs, AnalyzerId(run.calls[c].obj)).enabled
            /\ \A x \in 1..Len(run.results) :
                   ResolveConfig(run.configs, run.results[x].analyzerId).enabled
            /\ (run.pc = "done" /\ ~run.fromCache /\ run.failure = <<>>) =>
                   \A j \in 1..run.n :
                       LET o == analyzers[j]
                       IN  IF (IF AnalyzerId(o) \in DOMAIN run.configs
                               THEN run.configs[AnalyzerId(o)].enabled ELSE TRUE)
                           THEN /\ Invocations(run.calls, "analyze", o) = 1
                                /\ \E x \in 1..Len(run.returned[1]) :
                                       run.returned[1][x].analyzerId = AnalyzerId(o)
                           ELSE /\ ~Invoked(run.calls, o)
                                /\ \A x \in 1..Len(run.returned[1]) :
                                       run.returned[1][x].analyzerId # AnalyzerId(o)

\* A completed run over two analyzers: a is disabled by its config, b has no config
\* entry and ran.
C7_Witness ==
    \E r \in Runs :
        LET run == runs[r]
        IN  /\ run.pc = "done" /\ ~run.fromCache /\ run.failure = <<>>
            /\ run.n = 2
            /\ DOMAIN run.configs = {"a"} /\ ~run.configs["a"].enabled
            /\ run.returned = <<<<Result("b", 100)>>>>

\* C8: when validateConfig or analyze of an analyzer rejects, the call fails with
\* AnalyzerError ANALYSIS_FAILED carrying that analyzer's id, returns no result
\* list, and invokes nothing after the rejected invocation: no analyzer later in
\* registration order is invoked.
C8_FailureAbortsRun ==
    \A r \in Runs :
        LET run == runs[r]
        IN  run.failure # <<>> =>
                /\ run.pc = "done"
                /\ run.error = AnalyzerError(AnalyzerId(run.failure[1].obj), "ANALYSIS_FAILED")
                /\ run.returned = <<>>
                /\ ~run.wrote
                /\ run.calls[Len(run.calls)] = run.failure[1]
                /\ analyzers[run.i] = run.failure[1].obj
                /\ \A j \in 1..Len(analyzers) : j > run.i => ~Invoked(run.calls, analyzers[j])

\* analyze of the second analyzer rejected after the first had produced a result,
\* and the call returned nothing.
C8_Witness ==
    \E r \in Runs :
        LET run == runs[r]
        IN  /\ run.failure # <<>> /\ run.failure[1].op = "analyze"
            /\ run.i = 2
            /\ run.results # <<>>
            /\ run.error.code = "ANALYSIS_FAILED"

\* C9: registerAnalyzer with an id already registered raises DUPLICATE_ANALYZER and
\* leaves the registry as it was; ids in the registry are unique, getAnalyzer(id)
\* never changes once defined, and runAnalysis invokes only the analyzer that
\* getAnalyzer returns for its id.
C9_DuplicateRejected ==
    /\ [](\A i, j \in 1..Len(analyzers) :
            i # j => AnalyzerId(analyzers[i]) # AnalyzerId(analyzers[j]))
    /\ [](\A r \in Runs : \A c \in 1..Len(runs[r].calls) :
            getAnalyzer(AnalyzerId(runs[r].calls[c].obj)) = <<runs[r].calls[c].obj>>)
    /\ [][(regOp' # regOp \/ analyzers' # analyzers) =>
            IF AnalyzerId(regOp'.obj) \in RegisteredIds
            THEN /\ regOp'.error = AnalyzerError(AnalyzerId(regOp'.obj), "DUPLICATE_ANALYZER")
                 /\ analyzers' = analyzers
            ELSE /\ regOp'.error = NoAnalyzerError
                 /\ analyzers' = Append(analyzers, regOp'.obj)]_vars
    /\ [][\A id \in RegisteredIds : getAnalyzer(id)' = getAnalyzer(id)]_vars

\* a2 was refused under the id of a1, and a run has invoked a1.
C9_Witness ==
    /\ regOp.obj = "a2" /\ regOp.error.code = "DUPLICATE_ANALYZER"
    /\ getAnalyzer("a") = <<"a1">>
    /\ \E r \in Runs : runs[r].pc = "done" /\ Invoked(runs[r].calls, "a1")

\* C12: a runAnalysis call on a manager without a cache, or with a context without
\* downloadResult metadata, never calls cache.get or cache.set - no step of the call
\* changes the cache - and, when no analyzer fails, invokes analyze of every enabled
\* analyzer exactly once, so n such calls give n invocations each.
C12_NoCacheNoReuse ==
    /\ [](\A r \in Runs :
            LET run == runs[r]
            IN  (run.pc # "idle" /\ (~options.cache \/ run.key = <<>>)) =>
                    /\ ~run.read /\ ~run.wrote /\ ~run.fromCache
                    /\ run.cached = Null
                    /\ (run.pc = "done" /\ run.failure = <<>>) =>
                           /\ run.returned = <<run.results>>
                           /\ \A j \in 1..run.n :
                                  ResolveConfig(run.configs, AnalyzerId(analyzers[j])).enabled
                                      => Invocations(run.calls, "analyze", analyzers[j]) = 1)
    /\ [][\A r \in Runs :
            (runs'[r] # runs[r] /\ (~options.cache \/ runs'[r].key = <<>>)) =>
                cache' = cache]_vars

\* A manager with a cache holding an entry under k1: a call without metadata ran an
\* analyzer and returned its result, and the entry is the one an earlier call wrote.
C12_Witness ==
    \E r \in Runs :
        LET run == runs[r]
        IN  /\ options.cache /\ run.key = <<>>
            /\ run.pc = "done" /\ run.returned # <<>> /\ run.returned[1] # <<>>
            /\ "k1" \in DOMAIN cache
            /\ cache["k1"].results # run.returned[1]

\* A call whose cache.get found nothing usable: no entry, or one past max-age.
Missed(run) == run.read /\ (run.cached = Null \/ FoundStale(run))

\* C13: of two runAnalysis calls for one fingerprint interleaved on a cold or stale
\* cache, each call that missed invokes the analyzers itself and, when none fails,
\* writes the cache and returns the results it computed; every write puts the
\* writing call's entry under the key whatever the other call stored before, so the
\* entry left is that of the last set.
C13_BothMissBothComputeLastWriterWins ==
    /\ [](\A r \in Runs :
            LET run == runs[r]
            IN  (run.pc = "done" /\ Missed(run) /\ run.failure = <<>>) =>
                    /\ ~run.fromCache
                    /\ run.wrote
                    /\ run.returned = <<run.results>>
                    /\ \A j \in 1..run.n :
                           ResolveConfig(run.configs, AnalyzerId(analyzers[j])).enabled
                               => Invocations(run.calls, "analyze", analyzers[j]) = 1)
    /\ [][\A r \in Runs :
            (runs[r].pc = "await_run" /\ runs'[r].pc = "done" /\ runs[r].read) =>
                /\ cache' = MapPut(cache, runs[r].key[1],
                               CacheEntry(now, Metadata(runs[r].key[1]), runs[r].results))
                /\ runs'[r].returned = <<runs[r].results>>]_vars
    /\ [][(\A r \in Runs : ~(runs[r].pc = "await_run" /\ runs'[r].pc = "done")) =>
            cache' = cache]_vars

\* Both calls found the cache cold, both invoked analyze and computed different
\* results, both wrote and returned their own; the entry holds the results of r2.
C13_Witness ==
    /\ \A r \in Runs :
           /\ runs[r].pc = "done" /\ runs[r].read /\ runs[r].cached = Null
           /\ runs[r].wrote
           /\ Invoked(runs[r].calls, "a1")
    /\ runs["r1"].key = runs["r2"].key
    /\ runs["r1"].returned = <<<<Result("a", 50)>>>>
    /\ runs["r2"].returned = <<<<Result("a", 100)>>>>
    /\ cache["k1"].results = <<Result("a", 100)>>

\* C19 (as claimed): when cleanup() has completed, by resolving or by rejecting, the
\* hook of every registered analyzer that has one was invoked exactly once and has
\* completed; an analyzer without a hook had nothing invoked and made no error.
C19_CleanupWaitsForEveryHook ==
    clean.pc \in {"resolved", "rejected"} =>
        /\ \A j \in 1..Len(clean.objs) :
               /\ Cardinality({c \in 1..Len(clean.hookCalls) :
                                  clean.hookCalls[c] = clean.objs[j]})
                      = IF HasCleanup(clean.objs[j]) THEN 1 ELSE 0
               /\ clean.hooks[j] # "pending"
        /\ clean.pc = "rejected" =>
               \E j \in 1..Len(clean.objs) :
                   HasCleanup(clean.objs[j]) /\ clean.hooks[j] = "rejected"

\* C40 (as claimed): cleanup() calls the hook of every registered analyzer before it
\* waits for any of them.  So whenever cleanup() is waiting or has completed - also
\* when it failed because a hook failed - the hook of every registered analyzer that
\* has one was invoked exactly once, the hooks of the analyzers other than the one
\* that failed included.
C40_EveryHookStartedBeforeAnyWait ==
    clean.pc \in {"awaiting", "resolved", "rejected"} =>
        \A j \in 1..Len(clean.objs) :
            HasCleanup(clean.objs[j]) =>
                Cardinality({c \in 1..Len(clean.hookCalls) :
                                clean.hookCalls[c] = clean.objs[j]}) = 1

\* The ids with a result in a cache entry, and the registered ids a call enables.
ResultIds(entry) == {entry.results[x].analyzerId : x \in 1..Len(entry.results)}

EnabledIds(run) ==
    {AnalyzerId(analyzers[j]) : j \in
        {x \in 1..Len(analyzers) : ResolveConfig(run.configs, AnalyzerId(analyzers[x])).enabled}}

\* C20: only the key and the age decide reuse.  A call that finds an entry within
\* max-age under its fingerprint returns that entry's results - those of the
\* analyzers that ran when it was written - also when the analyzers the call enables
\* are not the ones with a result in the entry; it invokes no analyzer.  Registering
\* an analyzer leaves the stored entries as they are.
C20_KeyAloneDecidesReuse ==
    /\ [](\A r \in Runs :
            LET run == runs[r]
            IN  (/\ run.pc = "done" /\ run.read /\ run.cached # Null
                 /\ run.checkedAt - run.cached[1].timestamp < maxCacheAge
                 /\ ResultIds(run.cached[1]) # EnabledIds(run)) =>
                    /\ run.fromCache
                    /\ run.returned = <<run.cached[1].results>>
                    /\ run.calls = <<>>
                    /\ run.failure = <<>>)
    /\ [][analyzers' # analyzers => cache' = cache]_vars

\* The entry holds a result of analyzer a only; b is registered as well and the
\* call disables a, leaving b enabled, yet it returned the entry's result of a and
\* invoked nothing.
C20_Witness ==
    \E r \in Runs :
        LET run == runs[r]
        IN  /\ run.pc = "done" /\ run.fromCache
            /\ ResultIds(run.cached[1]) = {"a"}
            /\ Len(analyzers) = 2
            /\ DOMAIN run.configs = {"a"} /\ ~run.configs["a"].enabled
            /\ EnabledIds(run) = {"b"}
            /\ run.returned = <<run.cached[1].results>>
            /\ run.calls = <<>>

\* C27: in a call that runs the analyzers, validateConfig of an analyzer is called
\* only if the analyzer is enabled and its config has rules, and at most once;
\* every analyze of an analyzer whose config has rules comes right after that
\* analyzer's validateConfig, and an analyzer without rules has analyze called
\* without any validateConfig; a completed run has called validateConfig of each
\* enabled analyzer with rules once.  When validateConfig rejects, analyze of that
\* analyzer is not called and the call fails with ANALYSIS_FAILED for its id.
C27_ValidateBeforeAnalyze ==
    \A r \in Runs :
        LET run == runs[r]
            rules(o) == ResolveConfig(run.configs, AnalyzerId(o)).rules
            enabled(o) == ResolveConfig(run.configs, AnalyzerId(o)).enabled
        IN  /\ \A c \in 1..Len(run.calls) :
                   LET o == run.calls[c].obj
                   IN  /\ run.calls[c].op = "validateConfig" =>
                              /\ enabled(o) /\ rules(o)
                              /\ Invocations(run.calls, "validateConfig", o) = 1
                       /\ run.calls[c].op = "analyze" =>
                              IF rules(o)
                              THEN c > 1 /\ run.calls[c - 1] = Call("validateConfig", o)
                              ELSE Invocations(run.calls, "validateConfig", o) = 0
            /\ (run.pc = "done" /\ ~run.fromCache /\ run.failure = <<>>) =>
                   \A j \in 1..run.n :
                       (enabled(analyzers[j]) /\ rules(analyzers[j])) =>
                           Invocations(run.calls, "validateConfig", analyzers[j]) = 1
            /\ (run.failure # <<>> /\ run.failure[1].op = "validateConfig") =>
                   /\ Invocations(run.calls, "analyze", run.failure[1].obj) = 0
                   /\ run.pc = "done" /\ run.returned = <<>>
                   /\ run.error =
                          AnalyzerError(AnalyzerId(run.failure[1].obj), "ANALYSIS_FAILED")

\* The first analyzer has no rules and ran; validateConfig of the second, whose
\* config has rules, rejected and the call failed naming the second.
C27_Witness ==
    \E r \in Runs :
        LET run == runs[r]
        IN  /\ run.calls = <<Call("analyze", "a1"), Call("validateConfig", "b1")>>
            /\ run.failure = <<Call("validateConfig", "b1")>>
            /\ run.error = AnalyzerError("b", "ANALYSIS_FAILED")

\* The analyzers among the first n registered that the configs of a call enable, in
\* registration order.
EnabledInOrder(run, n) ==
    SelectSeq(SubSeq(analyzers, 1, n),
              LAMBDA o : ResolveConfig(run.configs, AnalyzerId(o)).enabled)

\* C28: within one runAnalysis call the analyze invocations follow registration
\* order over the enabled analyzers and never overlap: analyze of an analyzer is
\* called only when every earlier analyze of the call has produced its result, so
\* at most one is outstanding.  The results are in that same order, one per
\* analyzer that ran, and a call that completes returns - and, when it writes the
\* cache, stores - exactly one result per enabled analyzer in registration order.
C28_SequentialInRegistrationOrder ==
    \A r \in Callers :
        LET run == runs[r]
            en == EnabledInOrder(run, Len(analyzers))
            an == SelectSeq(run.calls, LAMBDA c : c.op = "analyze")
        IN  /\ Len(an) <= Len(en)
            /\ \A x \in 1..Len(an) : an[x].obj = en[x]
            /\ Len(run.results) <= Len(an) /\ Len(an) - Len(run.results) <= 1
            /\ Len(an) > Len(run.results) =>
                   \/ run.pc = "analyze"
                   \/ run.failure = <<an[Len(an)]>>
            /\ \A x \in 1..Len(run.results) :
                   run.results[x].analyzerId = AnalyzerId(en[x])
            /\ (run.pc = "done" /\ ~run.fromCache /\ run.failure = <<>>) =>
                   LET all == EnabledInOrder(run, run.n)
                   IN  /\ run.returned = <<run.results>>
                       /\ Len(run.returned[1]) = Len(all)
                       /\ \A x \in 1..Len(all) :
                              run.returned[1][x].analyzerId = AnalyzerId(all[x])
                       /\ run.wrote =>
                              /\ run.key[1] \in DOMAIN cache
                              /\ cache[run.key[1]].results = run.returned[1]

\* A completed call over two enabled analyzers stored and returned the result of
\* the first registered analyzer, b, before that of the second, a.
C28_Witness ==
    \E r \in Callers :
        LET run == runs[r]
        IN  /\ run.pc = "done" /\ run.wrote
            /\ analyzers = <<"b1", "a1">>
            /\ run.calls = <<Call("analyze", "b1"), Call("analyze", "a1")>>
            /\ run.returned = <<<<Result("b", 100), Result("a", 50)>>>>
            /\ cache[run.key[1]].results = run.returned[1]

\* C29: a runAnalysis call that fails leaves the cache as it was when the call
\* began: the call writes nothing, no step of a failed call changes the cache, and
\* what is stored under its fingerprint is what its cache.get found.  The next call
\* for the same fingerprint therefore finds the same missing or stale entry, and a
\* call that finds no entry or one past max-age runs the analyzers, not the cache.
C29_FailedRunLeavesCacheAlone ==
    /\ [](\A r \in Callers :
            LET run == runs[r]
            IN  run.failure # <<>> =>
                    /\ ~run.wrote /\ ~run.fromCache
                    /\ run.read => MapGet(cache, run.key[1]) = run.cached)
    /\ [][\A r \in Callers :
            /\ runs'[r].failure # <<>> => cache' = cache
            /\ (runs[r].failure # <<>> /\ runs[r].read
                   /\ runs'[r].pc = "await_get" /\ runs'[r].key = runs[r].key) =>
                    /\ runs'[r].cached = runs[r].cached
                    /\ runs'[r].cached # Null =>
                           ~isCacheValid(runs'[r].cached[1], now')
            /\ (runs[r].pc = "await_get" /\ runs'[r].pc # "await_get"
                   /\ (runs[r].cached = Null \/ ~isCacheValid(runs[r].cached[1], now))) =>
                    /\ ~runs'[r].fromCache
                    /\ runs'[r].pc \in {"validateConfig", "analyze", "await_run"}]_vars

\* A call that found a stale entry failed in analyze after one analyzer had
\* produced a result: the stale entry is still stored, and is still stale.
C29_Witness ==
    \E r \in Callers :
        LET run == runs[r]
        IN  /\ run.pc = "done" /\ run.failure # <<>> /\ run.failure[1].op = "analyze"
            /\ run.results # <<>>
            /\ FoundStale(run)
            /\ MapGet(cache, run.key[1]) = run.cached
            /\ ~isCacheValid(cache[run.key[1]], now)

\* C37: every entry a runAnalysis call stores carries Date.now() of the moment of
\* the write, so the entry that replaces another under a key is never older than
\* the one it replaces, in whatever order the calls in flight for that key finish.
C37_TimestampsAreMonotonic ==
    [][\A r \in Runs :
          (runs[r].pc = "await_run" /\ runs'[r].pc = "done" /\ runs'[r].wrote) =>
              LET k == runs[r].key[1]
              IN  /\ cache'[k].timestamp = now
                  /\ k \in DOMAIN cache => cache'[k].timestamp >= cache[k].timestamp]_vars

\* Two calls found the same key stale; the one that tested it first wrote last,
\* replacing the other's entry.
C37_Witness ==
    /\ runs["r1"].pc = "done" /\ runs["r2"].pc = "done"
    /\ runs["r1"].wrote /\ runs["r2"].wrote
    /\ FoundStale(runs["r1"]) /\ FoundStale(runs["r2"])
    /\ runs["r1"].checkedAt < runs["r2"].checkedAt
    /\ runs["r1"].results # runs["r2"].results
    /\ cache["k1"].results = runs["r1"].results
    /\ cache["k1"].timestamp > runs["r1"].checkedAt

\* C38: a call that found an entry serves it if and only if the entry's age at the
\* validity test, Date.now() - timestamp, is at most max-age; only an age greater
\* than max-age makes the call run the analyzers.
C38_StaleOnlyBeyondMaxAge ==
    \A r \in Runs :
        LET run == runs[r]
        IN  (run.cached # Null /\ run.checkedAt >= 0) =>
                (run.fromCache <=> run.checkedAt - run.cached[1].timestamp <= maxCacheAge)

C26_StoredEntriesAreImmutable ==
    [][\A k \in CacheKeys :
          /\ MapGet(cache', k) # MapGet(cache, k) =>
                 \E r \in Runs :
                     /\ runs[r].pc = "await_run" /\ runs'[r].pc = "done"
                     /\ runs'[r].wrote
                     /\ runs[r].key = <<k>>
                     /\ MapGet(cache', k) =
                            <<CacheEntry(now, Metadata(k), runs[r].results)>>
          /\ \A r \in Runs :
                 (runs[r].pc # "await_get" /\ runs'[r].pc = "await_get"
                    /\ runs'[r].key = <<k>>) =>
                     /\ runs'[r].cached = MapGet(cache, k)
                     /\ cache' = cache]_vars

\* A call that found a stale entry has computed other results and not yet written
\* them: the stored entry is still the one it read.
C26_Witness ==
    \E r \in Runs :
        LET run == runs[r]
        IN  /\ run.pc = "await_run" /\ FoundStale(run)
            /\ run.results # <<>> /\ run.results # run.cached[1].results
            /\ MapGet(cache, run.key[1]) = run.cached

(***************************************************************************)
(* Properties of the MemoryCache                                           *)
(***************************************************************************)
\* C10: get(k) returns null when k was never stored (or not since it was removed),
\* and otherwise exactly the entry of the latest set(k, _): after set(k, e1) and
\* set(k, e2) it is e2, whole, whatever was done to other keys in between.
C10_GetReturnsLatestSet ==
    cacheOp.op = "get" =>
        cacheOp.result =
            IF writes[cacheOp.key] = <<>> THEN Null
            ELSE <<writes[cacheOp.key][Len(writes[cacheOp.key])]>>

\* get(k1) after set(k1, e1), set(k1, e2) with e1, e2 differing in every field, the
\* other key holding an entry of its own.
C10_Witness ==
    /\ cacheOp.op = "get" /\ cacheOp.key = "k1"
    /\ Len(writes["k1"]) = 2
    /\ writes["k1"][1].timestamp # writes["k1"][2].timestamp
    /\ writes["k1"][1].source # writes["k1"][2].source
    /\ writes["k1"][1].results # writes["k1"][2].results
    /\ cacheOp.result = <<writes["k1"][2]>>
    /\ writes["k2"] # <<>>

\* C11: invalidate(k) removes the entry of k and nothing else - every other key
\* keeps its entry - and on a key that is not stored it resolves and leaves the
\* cache as it was; clear() leaves the cache empty and resolves on an empty cache
\* too.
C11_InvalidateRemovesOnlyItsKey ==
    /\ cacheOp.op = "invalidate" =>
           /\ DOMAIN cache = DOMAIN cacheOp.before \ {cacheOp.key}
           /\ \A x \in DOMAIN cache : cache[x] = cacheOp.before[x]
           /\ cacheOp.key \notin DOMAIN cacheOp.before => cache = cacheOp.before
           /\ cacheOp.result = Null
    /\ cacheOp.op = "clear" =>
           /\ DOMAIN cache = {}
           /\ cacheOp.result = Null

\* invalidate(k1) on a cache holding different entries under k1 and k2: k2 kept its
\* entry.
C11_Witness ==
    /\ cacheOp.op = "invalidate" /\ cacheOp.key = "k1"
    /\ DOMAIN cacheOp.before = {"k1", "k2"}
    /\ cacheOp.before["k1"] # cacheOp.before["k2"]
    /\ DOMAIN cache = {"k2"}
    /\ cache["k2"] = cacheOp.before["k2"]

=============================================================================
